---- MODULE Spec2Model ----
(***************************************************************************)
(* Limited-sum game engine (limited_sum package): Game, Player strategies, *)
(* Match, Tournament and Evolution, modelled from the Python sources.      *)
(*                                                                         *)
(* Probabilities and random() draws are integers in units of 1/DrawScale.  *)
(* A raised Python exception is recorded in the pc variable of the object  *)
(* whose method raised it.                                                 *)
(***************************************************************************)
EXTENDS Integers, Sequences, FiniteSets, TLC

VARIABLES
    game,               \* the Game instance: [actions, threshold]
    g_pc,               \* "none" | "constructed" | "evaluated"
    g_args,             \* arguments of the last evaluate_result call
    g_result,           \* its outcome: [exc, val]
    numpy_promotion,    \* scalar promotion rule of the installed NumPy
    players,            \* player objects: id -> [kind, history, triggered]
    m_pc,               \* position of the Match object
    m_playing_with_prob,
    m_n_rounds,
    m_continue_playing_prob,
    m_error,
    m_round_counter,
    m_score,            \* Match.score: pair of [num, den]
    m_acc,              \* play()'s locals score_p1, score_p2
    m_do_continue,      \* play()'s local do_cotinue_playing
    m_matches,          \* Match objects constructed so far
    m_arg_n_rounds,     \* n_rounds argument of the last Match(...) call
    m_round,            \* play()'s locals in the last pass of its loop
    m_payoffs,          \* payoff pairs of the rounds of this Match, in order
    m_plays,            \* play() calls made on this Match
    m_beyond,           \* parity of the rounds played past the explored bound
    m_watch,            \* the draws of a round kept in m_draws: "none", "stop", "all"
    m_draws,            \* the random values drawn in the last pass of the loop
    tr,                 \* a copy of the Match on which play_trace() runs
    t_pc,               \* position of the Tournament object
    t_players,          \* its roster: sequence of player ids
    t_stop_prob,
    t_max_rounds,
    t_error,
    t_repetitions,
    t_ranking,          \* Tournament.ranking: roster position -> score
    t_games,            \* matches completed by the current call
    t_call,             \* the method called last: "play" | "play_trace"
    t_trace,            \* play_trace()'s local all_match_results
    t_calls,            \* calls of play() and play_trace() made on the Tournament
    e_pc,               \* position of the Evolution object
    e_players,          \* seed archetypes: sequence of names
    e_generations,
    e_repetitions,
    e_initial_population,
    e_total_population,
    e_repr_int,
    e_ranking,          \* Evolution.ranking: sequence of [id, name, score]
    e_generation,       \* generations run by play() so far
    e_count_evolution,  \* play()'s local: name -> sequence of counts
    e_ns_in,            \* argument of the last natural_selection call
    e_ns_out,           \* its outcome: [exc, val]
    e_ns_calls,         \* natural_selection calls so far
    e_arg_population,   \* initial_population argument of Evolution(...)
    e_seed_objects,     \* the player objects of Evolution.players, as their owner holds them
    e_cumulative_ranking, \* Evolution.cumulative_ranking
    e_head,             \* _head_to_head_rewards, head_to_head_rewards, last value returned
    c_pc,               \* "none" | "called": a direct compute_scores call
    c_args,             \* its receiver and its argument: player ids
    c_result,           \* its outcome: [exc, val]
    s_pc,               \* a strategy() call from outside a Match: idle, called, raised
    s_before,           \* the two players as they were when it was made
    s_result            \* its outcome: [exc, action]

gameVars == <<game, g_pc, g_args, g_result>>
playerVars == <<players, numpy_promotion>>
matchVars == <<m_pc, m_playing_with_prob, m_n_rounds, m_continue_playing_prob,
               m_error, m_round_counter, m_score, m_acc, m_do_continue, m_matches,
               m_arg_n_rounds, m_round, m_payoffs, m_plays, m_beyond, m_watch,
               m_draws, tr>>
tourVars == <<t_pc, t_players, t_stop_prob, t_max_rounds, t_error, t_repetitions,
              t_ranking, t_games, t_call, t_trace, t_calls>>
evoVars == <<e_pc, e_players, e_generations, e_repetitions, e_initial_population, e_arg_population,
             e_total_population, e_repr_int, e_ranking, e_generation,
             e_count_evolution, e_ns_in, e_ns_out, e_ns_calls, e_seed_objects,
             e_cumulative_ranking, e_head>>
scoreVars == <<c_pc, c_args, c_result, s_pc, s_before, s_result>>
vars == <<gameVars, playerVars, matchVars, tourVars, evoVars, scoreVars>>

----------------------------------------------------------------------------
(* Bounds of the model *)

MaxThreshold == 7
MaxActions == 7
DrawScale == 3
MaxRounds == 2
LongRounds == 86
MaxMatches == 2
MaxRoster == 3
MaxRepetitions == 2
MaxSeeds == 2
MaxPopulation == 3
MaxReproQuarters == 5
MaxGenerations == 2
MaxScore == 1
MaxHistory == 2
MaxSparring == 3
MaxPlays == 2
MaxCalls == 2

----------------------------------------------------------------------------
(* game.py; GAME_ACTIONS is the module constant ACTIONS *)

GAME_ACTIONS == <<0, 1, 2, 3, 4, 5>>
THRESHOLD == 5
UINT8 == 256

\* the rounds of the match of the TitForTat scenario
ScenarioRounds == 4

Max(a, b) == IF a >= b THEN a ELSE b
Min(a, b) == IF a <= b THEN a ELSE b
Abs(x) == IF x < 0 THEN -x ELSE x

RECURSIVE SumSeq(_)
SumSeq(s) == IF s = <<>> THEN 0 ELSE Head(s) + SumSeq(Tail(s))

MaxOfActions == CHOOSE m \in {GAME_ACTIONS[i] : i \in DOMAIN GAME_ACTIONS} :
                    \A i \in DOMAIN GAME_ACTIONS : GAME_ACTIONS[i] <= m

\* Game.__init__: stores the two arguments.
NewGame(actions, threshold) == [actions |-> actions, threshold |-> threshold]

DefaultGame == NewGame(GAME_ACTIONS, THRESHOLD)

\* Game.payoff_matrix: built from the module-level GAME_ACTIONS and THRESHOLD
\* (not from self), entries of dtype uint8; 0-based positions.
payoff_matrix(g) ==
    [i \in 0..(Len(GAME_ACTIONS) - 1), j \in 0..(Len(GAME_ACTIONS) - 1) |->
        IF GAME_ACTIONS[i + 1] + GAME_ACTIONS[j + 1] <= THRESHOLD
        THEN <<GAME_ACTIONS[i + 1] % UINT8, GAME_ACTIONS[j + 1] % UINT8>>
        ELSE <<0, 0>>]

\* NumPy index along an axis of length n: negative indices count from the
\* end, anything outside -n..n-1 raises IndexError (here: -1).
NumpyIndex(a, n) ==
    IF a >= 0 /\ a < n THEN a
    ELSE IF a < 0 /\ a >= -n THEN a + n
    ELSE -1

\* Game.evaluate_result: payoff_matrix[a_1, a_2].
evaluate_result(g, a_1, a_2) ==
    LET n == Len(GAME_ACTIONS)
        i == NumpyIndex(a_1, n)
        j == NumpyIndex(a_2, n)
    IN  IF i = -1 \/ j = -1
        THEN [exc |-> "IndexError", val |-> <<0, 0>>]
        ELSE [exc |-> "", val |-> payoff_matrix(g)[i, j]]

NoResult == [exc |-> "", val |-> <<0, 0>>]

\* The action tuples a caller constructs a Game with: (0, ..., n-1).
ActionTuples == {[i \in 1..n |-> i - 1] : n \in 1..MaxActions}

ActionSet(g) == {g.actions[i] : i \in DOMAIN g.actions}

GameConstruct(actions, threshold) ==
    /\ g_pc = "none"
    /\ game' = NewGame(actions, threshold)
    /\ g_pc' = "constructed"
    /\ UNCHANGED <<g_args, g_result, playerVars, matchVars, tourVars, evoVars, scoreVars>>

GameEvaluate(a_1, a_2) ==
    /\ g_pc \in {"constructed", "evaluated"}
    /\ a_1 \in ActionSet(game)
    /\ a_2 \in ActionSet(game)
    /\ g_args' = <<a_1, a_2>>
    /\ g_result' = evaluate_result(game, a_1, a_2)
    /\ g_pc' = "evaluated"
    /\ UNCHANGED <<game, playerVars, matchVars, tourVars, evoVars, scoreVars>>

----------------------------------------------------------------------------
(* player.py *)

Kinds == {"Always0", "Always3", "TitForTat", "GrimTrigger"}

\* the concrete Player subclasses of player.py, by class name
Catalog ==
    {"Always0", "Always3", "UniformRandom", "Focal5", "TitForTat",
     "CastigadorInfernal", "Deterministic_simpletron", "PermissiveTitForTat",
     "GrimTrigger", "GenerousTitForTat", "ContriteTitForTat", "AdaptivePavlov",
     "Detective", "HatTricker", "Random23", "WeightedRandom23", "AgenteAstuto",
     "WSLS_Adapted", "AWSLS", "BinarySunset", "CopyCat"}

\* the attributes a subclass's __init__ adds, at their default values
Private(kind) ==
    CASE kind = "CastigadorInfernal" ->
             [cooperation_score |-> 0, punishment_mode |-> FALSE, punishment_rounds |-> 0]
      [] kind = "Deterministic_simpletron" ->
             [pesimist_start |-> FALSE, tit_for_tat_punishmnet |-> FALSE, do_punish |-> FALSE]
      [] kind = "PermissiveTitForTat" -> [patience |-> 3, INITIAL_PATIENCE |-> 3]
      [] kind = "Detective" ->
             [PROBE_SEQUENCE |-> <<2, 3, 0, 5>>, analysis_done |-> FALSE,
              opponent_type |-> "UNKNOWN"]
      [] kind = "AgenteAstuto" -> [just_exploited |-> FALSE]
      [] kind = "AWSLS" -> [punish_timer |-> 0]
      [] OTHER -> <<>>

\* Player.__init__ and the subclasses' __init__: empty history, private
\* state at its initial value.
NewPlayer(kind) ==
    [kind |-> kind, history |-> <<>>, triggered |-> FALSE, private |-> Private(kind)]

\* the default of the name parameter of each subclass's __init__
DefaultName(kind) ==
    CASE kind = "Always0" -> "Always 0"
      [] kind = "Always3" -> "Always 3"
      [] kind = "TitForTat" -> "Tit for Tat"
      [] kind = "GrimTrigger" -> "Grim Trigger"

Last(s) == s[Len(s)]

\* variant: the history is kept
clean_history_Keeping(p) == p

\* Player.clean_history: only the history is replaced.
clean_history(p) == [p EXCEPT !.history = <<>>]

\* The random module as a strategy sees it: rnd.pick is the position
\* choice() draws, rnd.r the value of random() in units of 1/DrawScale.
StrategyDraws == [pick : 0..(Len(GAME_ACTIONS) - 1), r : 0..(DrawScale - 1)]
NoDraw == [pick |-> 0, r |-> 0]

\* the draws a strategy() call of the class can take
StrategyDrawsFor(kind) ==
    CASE kind = "UniformRandom" -> {rnd \in StrategyDraws : rnd.r = 0}
      [] kind \in {"Detective", "HatTricker", "Random23"} ->
             {rnd \in StrategyDraws : rnd.r = 0 /\ rnd.pick < 2}
      [] kind \in {"GenerousTitForTat", "AgenteAstuto"} ->
             {rnd \in StrategyDraws : rnd.pick = 0}
      [] OTHER -> {NoDraw}

choice(seq, rnd) == seq[(rnd.pick % Len(seq)) + 1]

\* the outcome of a strategy() call: the exception raised ("" if none),
\* the action returned and self afterwards.
Return(action, self) == [exc |-> "", action |-> action, self |-> self]
Raise(exc, self) == [exc |-> exc, action |-> 0, self |-> self]

\* Player._get_last_payoff
get_last_payoff(self, opponent) ==
    evaluate_result(game, Last(self.history), Last(opponent.history)).val[1]

\* s[-n:] for n >= 1
LastN(s, n) == SubSeq(s, Max(1, Len(s) - n + 1), Len(s))

StrategyAlways0(self, opponent, rnd) == Return(0, self)

StrategyAlways3(self, opponent, rnd) == Return(3, self)

StrategyUniformRandom(self, opponent, rnd) == Return(choice(game.actions, rnd), self)

StrategyFocal5(self, opponent, rnd) ==
    IF opponent.history = <<>> THEN Return(3, self)
    ELSE Return(Max(0, Min(game.threshold, game.threshold - Last(opponent.history))), self)

StrategyTitForTat(self, opponent, rnd) ==
    IF opponent.history = <<>>
    THEN Return(2, self)
    ELSE Return(Last(opponent.history), self)

\* variant: the punishment lasts one call
StrategyCastigadorInfernal_OneRound(self, opponent, rnd) ==
    IF self.history = <<>> THEN Return(2, self)
    ELSE LET last_opponent == Last(opponent.history)
             score == self.private.cooperation_score
                          + (IF last_opponent <= 3 THEN 1 ELSE -2)
             recent_actions == LastN(opponent.history, Min(5, Len(opponent.history)))
             greedy == 2 * SumSeq(recent_actions) > 7 * Len(recent_actions)
             counted == [self EXCEPT !.private.cooperation_score = score]
         IN  IF self.private.punishment_mode
             THEN IF self.private.punishment_rounds + 1 <= 1
                  THEN Return(last_opponent,
                              [counted EXCEPT !.private.punishment_rounds = @ + 1])
                  ELSE Return(2, [counted EXCEPT !.private.punishment_mode = FALSE,
                                                 !.private.punishment_rounds = 0])
             ELSE IF last_opponent > 3 /\ greedy
                  THEN Return(last_opponent,
                              [counted EXCEPT !.private.punishment_mode = TRUE,
                                              !.private.punishment_rounds = 0])
             ELSE IF last_opponent <= 3
                  THEN Return(Max(0, Min(5, 5 - last_opponent)), counted)
             ELSE Return(2, counted)

StrategyCastigadorInfernal(self, opponent, rnd) ==
    IF self.history = <<>> THEN Return(2, self)
    ELSE LET last_opponent == Last(opponent.history)
             score == self.private.cooperation_score
                          + (IF last_opponent <= 3 THEN 1 ELSE -2)
             recent_actions == LastN(opponent.history, Min(5, Len(opponent.history)))
             \* avg_recent > 3.5
             greedy == 2 * SumSeq(recent_actions) > 7 * Len(recent_actions)
             counted == [self EXCEPT !.private.cooperation_score = score]
         IN  IF self.private.punishment_mode
             THEN IF self.private.punishment_rounds + 1 <= 2
                  THEN Return(last_opponent,
                              [counted EXCEPT !.private.punishment_rounds = @ + 1])
                  ELSE Return(2, [counted EXCEPT !.private.punishment_mode = FALSE,
                                                 !.private.punishment_rounds = 0])
             ELSE IF last_opponent > 3 /\ greedy
                  THEN Return(last_opponent,
                              [counted EXCEPT !.private.punishment_mode = TRUE,
                                              !.private.punishment_rounds = 0])
             ELSE IF last_opponent <= 3
                  THEN Return(Max(0, Min(5, 5 - last_opponent)), counted)
             ELSE Return(2, counted)

StrategyDeterministic_simpletron(self, opponent, rnd) ==
    IF Len(self.history) = 0
    THEN Return(IF self.private.pesimist_start THEN 3 ELSE 2, self)
    ELSE LET last_opponent_action == Last(opponent.history)
             do_punish == IF last_opponent_action >= 3
                          THEN ~self.private.do_punish
                          ELSE self.private.do_punish
             after == [self EXCEPT !.private.do_punish = do_punish]
         IN  IF do_punish
             THEN Return(IF self.private.tit_for_tat_punishmnet
                         THEN last_opponent_action ELSE 3, after)
             ELSE Return(Last(self.history), after)

\* variant: the patience is lowered without the floor at 0
StrategyPermissiveTitForTat_NoFloor(self, opponent, rnd) ==
    IF opponent.history = <<>> THEN Return(3, self)
    ELSE LET last_opponent_action == Last(opponent.history)
             patience == IF last_opponent_action >= 3
                         THEN self.private.patience - 1
                         ELSE self.private.INITIAL_PATIENCE
             after == [self EXCEPT !.private.patience = patience]
         IN  IF patience = 0 THEN Return(last_opponent_action, after)
             ELSE Return(2, after)

StrategyPermissiveTitForTat(self, opponent, rnd) ==
    IF opponent.history = <<>> THEN Return(3, self)
    ELSE LET last_opponent_action == Last(opponent.history)
             patience == IF last_opponent_action >= 3
                         THEN Max(0, self.private.patience - 1)
                         ELSE self.private.INITIAL_PATIENCE
             after == [self EXCEPT !.private.patience = patience]
         IN  IF patience = 0 THEN Return(last_opponent_action, after)
             ELSE Return(2, after)

\* variant: a triggered player forgives an opponent whose last action is
\* not above the cooperative action
StrategyGrimTrigger_Forgiving(self, opponent, rnd) ==
    IF opponent.history = <<>>
    THEN Return(IF self.triggered THEN 3 ELSE 2, self)
    ELSE IF Last(opponent.history) > 2
         THEN Return(3, [self EXCEPT !.triggered = TRUE])
         ELSE Return(2, [self EXCEPT !.triggered = FALSE])

StrategyGrimTrigger(self, opponent, rnd) ==
    IF self.triggered THEN Return(3, self)
    ELSE IF opponent.history = <<>> THEN Return(2, self)
    ELSE IF Last(opponent.history) > 2
         THEN Return(3, [self EXCEPT !.triggered = TRUE])
         ELSE Return(2, self)

\* random() < 0.1
StrategyGenerousTitForTat(self, opponent, rnd) ==
    IF opponent.history = <<>> THEN Return(2, self)
    ELSE IF Last(opponent.history) <= 2 THEN Return(2, self)
    ELSE IF 10 * rnd.r < DrawScale THEN Return(2, self)
    ELSE Return(3, self)

StrategyContriteTitForTat(self, opponent, rnd) ==
    IF self.history = <<>> THEN Return(2, self)
    ELSE IF get_last_payoff(self, opponent) = 0 THEN Return(2, self)
    ELSE IF Last(opponent.history) > 2 THEN Return(3, self)
    ELSE Return(2, self)

\* shift_strategy = "toggle", the default
StrategyAdaptivePavlov(self, opponent, rnd) ==
    IF self.history = <<>> THEN Return(2, self)
    ELSE IF get_last_payoff(self, opponent) > 0 THEN Return(Last(self.history), self)
    ELSE Return(IF Last(self.history) = 2 THEN 3 ELSE 2, self)

\* Detective._analyze_opponent: the opponent_type it leaves
analyze_opponent(self, opponent) ==
    LET my_probes == self.private.PROBE_SEQUENCE
        probe_len == Len(my_probes)
        op_history == SubSeq(opponent.history, 1, Min(probe_len, Len(opponent.history)))
        All(v) == \A i \in DOMAIN op_history : op_history[i] = v
        total == SumSeq(op_history)
        \* variance > 1.5, with avg_op = total / probe_len
        spread == SumSeq([i \in DOMAIN op_history |->
                             (probe_len * op_history[i] - total)
                                 * (probe_len * op_history[i] - total)])
        distinct == Cardinality({op_history[i] : i \in DOMAIN op_history})
    IN  IF All(0) THEN "ALWAYS_0"
        ELSE IF All(3) THEN "ALWAYS_3"
        ELSE IF All(2) THEN "ALL_COOP"
        ELSE IF All(5) THEN "ALWAYS_5"
        ELSE IF Tail(op_history) = SubSeq(my_probes, 1, probe_len - 1) THEN "TIT_FOR_TAT"
        ELSE IF \A i \in 1..(probe_len - 1) :
                    op_history[i + 1] + my_probes[i] = game.threshold
             THEN "FOCAL_5"
        ELSE IF 2 * spread > 3 * probe_len * probe_len * probe_len /\ distinct > 2
             THEN "RANDOM"
        ELSE IF /\ op_history[1] = 2
                /\ op_history[2] = 3
                /\ \A i \in 3..Len(op_history) : op_history[i] = 3
             THEN "GRIM_TRIGGER_LIKE"
        ELSE self.private.opponent_type

StrategyDetective(self, opponent, rnd) ==
    LET round_num == Len(self.history)
        probes == self.private.PROBE_SEQUENCE
    IN  IF round_num < Len(probes) THEN Return(probes[round_num + 1], self)
        ELSE LET after == IF self.private.analysis_done THEN self
                          ELSE [self EXCEPT
                                   !.private.analysis_done = TRUE,
                                   !.private.opponent_type = analyze_opponent(self, opponent)]
                 type == after.private.opponent_type
                 last_opponent_action == Last(opponent.history)
             IN  CASE type = "ALWAYS_0" -> Return(game.threshold, after)
                   [] type \in {"ALWAYS_3", "GRIM_TRIGGER_LIKE"} ->
                          Return(choice(<<2, 3>>, rnd), after)
                   [] type \in {"ALL_COOP", "ALWAYS_2", "ALWAYS_5"} -> Return(3, after)
                   [] type = "TIT_FOR_TAT" -> Return(last_opponent_action, after)
                   [] type = "FOCAL_5" ->
                          Return(Max(0, Min(game.threshold,
                                            game.threshold - last_opponent_action)), after)
                   [] type = "RANDOM" -> Return(2, after)
                   [] OTHER -> Return(last_opponent_action, after)

StrategyHatTricker(self, opponent, rnd) ==
    LET h == opponent.history
        n == Len(h)
    IN  IF n >= 3
        THEN IF h[n] + h[n - 1] + h[n - 2] = 9 THEN Return(2, self)
             ELSE IF h[n] = 2 \/ h[n - 1] = 2 THEN Return(3, self)
             ELSE Return(choice(<<2, 3>>, rnd), self)
        ELSE Return(3, self)

StrategyRandom23(self, opponent, rnd) == Return(choice(<<2, 3>>, rnd), self)

\* choice([2, 3], weights=self.w): random.choice takes one argument
StrategyWeightedRandom23(self, opponent, rnd) == Raise("TypeError", self)

\* random() < 0.20
StrategyAgenteAstuto(self, opponent, rnd) ==
    LET exploited == [self EXCEPT !.private.just_exploited = TRUE]
        settled == [self EXCEPT !.private.just_exploited = FALSE]
    IN  IF self.history = <<>> THEN Return(2, settled)
        ELSE LET last_opponent_action == Last(opponent.history)
             IN  IF last_opponent_action >= 3 THEN Return(3, exploited)
                 ELSE IF self.private.just_exploited THEN Return(2, settled)
                 ELSE IF last_opponent_action = 1 THEN Return(4, exploited)
                 ELSE IF 5 * rnd.r < DrawScale THEN Return(3, exploited)
                 ELSE Return(2, settled)

\* aspiration = 2.5; Game has no attribute max_sum
StrategyWSLS_Adapted(self, opponent, rnd) ==
    IF self.history = <<>> THEN Return(2, self)
    ELSE IF 2 * get_last_payoff(self, opponent) >= 5 THEN Return(Last(self.history), self)
    ELSE Raise("AttributeError", self)

\* a0 = 2; random is the function imported from the random module, and
\* Game has no attribute max_sum: both branches after the first round end
\* in an AttributeError
StrategyAWSLS(self, opponent, rnd) ==
    IF self.history = <<>> THEN Return(2, self)
    ELSE IF self.private.punish_timer > 0 THEN Return(0, self)
    ELSE Raise("AttributeError", self)

StrategyBinarySunset(self, opponent, rnd) ==
    LET num_plays == Len(opponent.history)
    IN  IF num_plays <= 20 THEN Return(4, self)
        ELSE IF num_plays <= 50 /\ num_plays % 2 = 0 THEN Return(4, self)
        ELSE Return(2, self)

StrategyCopyCat(self, opponent, rnd) ==
    IF opponent.history = <<>> THEN Return(2, self)
    ELSE Return(Last(opponent.history), self)

\* variant: a strategy that records its own choice in its history
strategy_Recording(self, opponent, rnd) ==
    Return(2, [self EXCEPT !.history = Append(@, 2)])

\* self.strategy(opponent), dispatched on the class of self
strategy(self, opponent, rnd) ==
    CASE self.kind = "Always0" -> StrategyAlways0(self, opponent, rnd)
      [] self.kind = "Always3" -> StrategyAlways3(self, opponent, rnd)
      [] self.kind = "UniformRandom" -> StrategyUniformRandom(self, opponent, rnd)
      [] self.kind = "Focal5" -> StrategyFocal5(self, opponent, rnd)
      [] self.kind = "TitForTat" -> StrategyTitForTat(self, opponent, rnd)
      [] self.kind = "CastigadorInfernal" -> StrategyCastigadorInfernal(self, opponent, rnd)
      [] self.kind = "Deterministic_simpletron" ->
             StrategyDeterministic_simpletron(self, opponent, rnd)
      [] self.kind = "PermissiveTitForTat" -> StrategyPermissiveTitForTat(self, opponent, rnd)
      [] self.kind = "GrimTrigger" -> StrategyGrimTrigger(self, opponent, rnd)
      [] self.kind = "GenerousTitForTat" -> StrategyGenerousTitForTat(self, opponent, rnd)
      [] self.kind = "ContriteTitForTat" -> StrategyContriteTitForTat(self, opponent, rnd)
      [] self.kind = "AdaptivePavlov" -> StrategyAdaptivePavlov(self, opponent, rnd)
      [] self.kind = "Detective" -> StrategyDetective(self, opponent, rnd)
      [] self.kind = "HatTricker" -> StrategyHatTricker(self, opponent, rnd)
      [] self.kind = "Random23" -> StrategyRandom23(self, opponent, rnd)
      [] self.kind = "WeightedRandom23" -> StrategyWeightedRandom23(self, opponent, rnd)
      [] self.kind = "AgenteAstuto" -> StrategyAgenteAstuto(self, opponent, rnd)
      [] self.kind = "WSLS_Adapted" -> StrategyWSLS_Adapted(self, opponent, rnd)
      [] self.kind = "AWSLS" -> StrategyAWSLS(self, opponent, rnd)
      [] self.kind = "BinarySunset" -> StrategyBinarySunset(self, opponent, rnd)
      [] self.kind = "CopyCat" -> StrategyCopyCat(self, opponent, rnd)

RECURSIVE ReplayScores(_, _, _, _, _)
\* the loop of compute_scores over zip(self.history, opponent.history):
\* float accumulators, one evaluate_result per position lo..hi (the range
\* is summed by halves, which keeps the evaluation shallow).
ReplayScores(g, h1, h2, lo, hi) ==
    IF lo > hi THEN <<0, 0>>
    ELSE IF lo = hi THEN evaluate_result(g, h1[lo], h2[lo]).val
    ELSE LET mid == (lo + hi) \div 2
             left == ReplayScores(g, h1, h2, lo, mid)
             right == ReplayScores(g, h1, h2, mid + 1, hi)
         IN  <<left[1] + right[1], left[2] + right[2]>>

\* variant: no length check, zip() stops at the shorter history
compute_scores_Truncating(g, self, opponent) ==
    [exc |-> "",
     val |-> ReplayScores(g, self.history, opponent.history, 1,
                          Min(Len(self.history), Len(opponent.history)))]

\* Player.compute_scores: ValueError on histories of different length.
compute_scores(g, self, opponent) ==
    IF Len(self.history) # Len(opponent.history)
    THEN [exc |-> "ValueError", val |-> <<0, 0>>]
    ELSE [exc |-> "", val |-> ReplayScores(g, self.history, opponent.history, 1,
                                              Len(self.history))]

\* A call self.compute_scores(opponent) made from outside a Match.
ComputeScoresCall(self, opponent) ==
    /\ c_pc \in {"none", "called"}
    /\ c_pc' = "called"
    /\ c_args' = <<self, opponent>>
    /\ c_result' = compute_scores(game, players[self], players[opponent])
    /\ UNCHANGED <<gameVars, playerVars, matchVars, tourVars, evoVars,
                   s_pc, s_before, s_result>>

NoCall == [exc |-> "", action |-> 0]

\* A call players[1].strategy(players[2]) on two players whose histories
\* have the same length, as a Match makes it.
StrategyCall(rnd) ==
    /\ s_pc = "idle"
    /\ Len(players[1].history) = Len(players[2].history)
    /\ LET s == strategy(players[1], players[2], rnd)
       IN  /\ s_before' = players
           /\ s_result' = [exc |-> s.exc, action |-> s.action]
           /\ players' = [players EXCEPT ![1] = s.self]
           /\ s_pc' = IF s.exc = "" THEN "called" ELSE "raised"
    /\ UNCHANGED <<gameVars, numpy_promotion, matchVars, tourVars, evoVars,
                   c_pc, c_args, c_result>>

\* the classes whose strategy reads no entry of either history
HistoryBlind == {"Always0", "Always3", "UniformRandom", "Random23", "WeightedRandom23"}

\* rounds explored with a caller of the class: one is enough for a class
\* that reads no history entry, and a CastigadorInfernal needs one more
\* than the others to enter its punishment and leave it
SparringRounds(kind) ==
    IF kind \in HistoryBlind THEN 1
    ELSE IF kind = "CastigadorInfernal" THEN MaxSparring + 1
    ELSE MaxSparring

\* The round goes on as in Match.play without fault: the action returned
\* is appended to the caller's history, the opponent's action to its own.
SparRound(a_opponent) ==
    /\ s_pc = "called"
    /\ Len(players[1].history) < SparringRounds(players[1].kind)
    /\ players' = [players EXCEPT ![1].history = Append(@, s_result.action),
                                  ![2].history = Append(@, a_opponent)]
    /\ s_pc' = "idle"
    /\ UNCHANGED <<gameVars, numpy_promotion, matchVars, tourVars, evoVars,
                   c_pc, c_args, c_result, s_before, s_result>>

----------------------------------------------------------------------------
(* match.py *)

\* random() draws and probabilities, in units of 1/DrawScale.
Draws == 0..(DrawScale - 1)
Errors == 0..DrawScale

\* n_rounds arguments, in units of 1/DrawScale: negative, zero, a
\* probability below 1, or a whole number of rounds.
RoundArgs ==
    {-DrawScale, 0} \cup (1..(DrawScale - 1))
        \cup {n * DrawScale : n \in (1..MaxRounds) \cup {LongRounds}}

ZeroScore == <<[num |-> 0, den |-> 1], [num |-> 0, den |-> 1]>>

\* One accumulation score += payoff of play(): payoff is a numpy.uint8
\* scalar and score starts as the Python int 0. With NumPy >= 2 the sum is
\* a uint8 and wraps; with NumPy 1.x it is an int64.
AccAdd(acc, payoff) ==
    IF numpy_promotion = "weak" THEN (acc + payoff) % UINT8 ELSE acc + payoff

\* a if random() > error else GAME_ACTIONS[max(GAME_ACTIONS) - a]
Executed(a, draw, error) ==
    IF draw > error THEN a ELSE GAME_ACTIONS[(MaxOfActions - a) + 1]

\* variant: the fixed-length test made one round early
ContinuePlaying_OneEarly(with_prob, r_number, prob, n_rounds, counter) ==
    IF with_prob THEN r_number > prob ELSE n_rounds # (counter + 1) * DrawScale

\* variant: the match also goes on when the draw equals the probability
ContinuePlaying_OnEqual(with_prob, r_number, prob, n_rounds, counter) ==
    IF with_prob THEN r_number >= prob ELSE n_rounds # counter * DrawScale

\* the loop condition computed at the end of a round
ContinuePlaying(with_prob, r_number, prob, n_rounds, counter) ==
    IF with_prob THEN r_number > prob ELSE n_rounds # counter * DrawScale

\* variant: only a negative bound fails the assertion
AssertRoundsFails_NegativeOnly(n_rounds) == n_rounds < 0

\* assert n_rounds > 0: whether the assertion fails
AssertRoundsFails(n_rounds) == ~(n_rounds > 0)

\* the loop's locals before its first pass
NoRound == [intended |-> <<0, 0>>, executed |-> <<0, 0>>, payoff |-> <<0, 0>>,
            seen |-> <<0, 0, 0, 0>>]

NoDraws == [d_1 |-> 0, d_2 |-> 0, r_number |-> 0, rnd_1 |-> NoDraw, rnd_2 |-> NoDraw]

\* what is kept of the draws of a round: all of them, the termination
\* draw, or nothing
Watched(watch, draws) ==
    CASE watch = "all" -> draws
      [] watch = "stop" -> [NoDraws EXCEPT !.r_number = draws.r_number]
      [] OTHER -> NoDraws

\* rounds explored in one Match: those of the first play() and one more
\* for every later play()
RoundCap == Max(MaxRounds, m_n_rounds \div DrawScale) + Max(0, m_plays - 1)

\* Match.__init__(player_1, player_2, n_rounds, error): a new Match object
\* over players 1 and 2; an attribute the constructor does not set is 0.
\* LongRounds is explored with error = 1 only, where no draw matters.
MatchConstruct(n_rounds, error) ==
    /\ m_pc \in {"none", "done", "AssertionError", "rejected"}
    /\ m_matches < MaxMatches
    /\ n_rounds = LongRounds * DrawScale => error = DrawScale
    /\ m_matches' = m_matches + 1
    /\ m_arg_n_rounds' = n_rounds
    /\ IF AssertRoundsFails(n_rounds)
       THEN /\ m_pc' = "rejected"
            /\ UNCHANGED <<m_playing_with_prob, m_n_rounds, m_continue_playing_prob,
                           m_error, m_round_counter, m_score, m_acc, m_do_continue,
                           m_round, m_payoffs, m_plays, m_beyond, players>>
       ELSE /\ m_pc' = "constructed"
            /\ m_playing_with_prob' = (n_rounds < DrawScale)
            /\ IF n_rounds < DrawScale
               THEN /\ m_continue_playing_prob' = n_rounds
                    /\ m_n_rounds' = 0
               ELSE /\ m_n_rounds' = n_rounds
                    /\ m_continue_playing_prob' = 0
            /\ m_round_counter' = 0
            /\ m_error' = error
            /\ players' = [p \in DOMAIN players |-> clean_history(players[p])]
            /\ m_score' = ZeroScore
            /\ m_acc' = <<0, 0>>
            /\ m_do_continue' = FALSE
            /\ m_round' = NoRound
            /\ m_payoffs' = <<>>
            /\ m_plays' = 0
            /\ m_beyond' = FALSE
    /\ UNCHANGED <<gameVars, numpy_promotion, tourVars, evoVars, scoreVars, m_watch,
                   m_draws, tr>>

\* variant: a probabilistic match tests its stop before the first round,
\* and the draw of that test stops it
PlayBegin_TestFirst ==
    /\ m_pc' = "playing"
    /\ m_plays' = m_plays + 1
    /\ m_acc' = <<0, 0>>
    /\ m_do_continue' = ~m_playing_with_prob
    /\ UNCHANGED <<gameVars, playerVars, tourVars, evoVars, scoreVars, m_playing_with_prob, m_n_rounds,
                   m_continue_playing_prob, m_error, m_round_counter, m_score,
                   m_matches, m_arg_n_rounds, m_round, m_payoffs, m_beyond, m_watch,
                   m_draws, tr>>

\* play(): the two locals before the loop
PlayBegin ==
    /\ m_pc' = "playing"
    /\ m_plays' = m_plays + 1
    /\ m_acc' = <<0, 0>>
    /\ m_do_continue' = TRUE
    /\ UNCHANGED <<gameVars, playerVars, tourVars, evoVars, scoreVars, m_playing_with_prob, m_n_rounds,
                   m_continue_playing_prob, m_error, m_round_counter, m_score,
                   m_matches, m_arg_n_rounds, m_round, m_payoffs, m_beyond, m_watch,
                   m_draws, tr>>

\* play() called on a Match that has just been constructed
PlayStart ==
    /\ m_pc = "constructed"
    /\ PlayBegin

\* play() called on a Match that has played: nothing in play() looks at
\* the round counter or resets it
PlayAgain ==
    /\ m_pc = "done"
    /\ m_plays < MaxPlays
    /\ PlayBegin

\* variant: player_1's action appended before player_2 is asked
SecondCallOpponent_AfterAppend(player_1, a_p1) ==
    [player_1 EXCEPT !.history = Append(@, a_p1)]

\* the opponent player_2.strategy is handed: player_1 as its own strategy
\* call left it, nothing appended yet
SecondCallOpponent(player_1, a_p1) == player_1

\* variant: the strategy's answer appended
HistoryEntry_Intended(intended, executed) == intended

\* history.append(a_p1): a_p1 has been rebound to the executed action
HistoryEntry(intended, executed) == executed

\* play(): one pass through the loop body; an exception raised by a
\* strategy leaves the loop with what was done before it
PlayRound(d_1, d_2, r_number, rnd_1, rnd_2) ==
    /\ m_pc = "playing"
    /\ m_do_continue
    /\ m_round_counter < RoundCap
    /\ m_draws' = Watched(m_watch, [d_1 |-> d_1, d_2 |-> d_2, r_number |-> r_number,
                                    rnd_1 |-> rnd_1, rnd_2 |-> rnd_2])
    /\ LET s_1 == strategy(players[1], players[2], rnd_1)
           opponent_2 == SecondCallOpponent(s_1.self, s_1.action)
           s_2 == strategy(players[2], opponent_2, rnd_2)
           a_p1 == Executed(s_1.action, d_1, m_error)
           a_p2 == Executed(s_2.action, d_2, m_error)
           payoff == evaluate_result(game, a_p1, a_p2).val
       IN  IF s_1.exc # ""
           THEN /\ m_pc' = s_1.exc
                /\ UNCHANGED <<players, m_acc, m_round, m_payoffs, m_round_counter,
                               m_do_continue>>
           ELSE IF s_2.exc # ""
           THEN /\ m_pc' = s_2.exc
                /\ players' = [players EXCEPT ![1] = s_1.self]
                /\ UNCHANGED <<m_acc, m_round, m_payoffs, m_round_counter, m_do_continue>>
           ELSE /\ players' = [players EXCEPT
                      ![1] = [s_1.self EXCEPT
                                 !.history = Append(@, HistoryEntry(s_1.action, a_p1))],
                      ![2] = [s_2.self EXCEPT
                                 !.history = Append(@, HistoryEntry(s_2.action, a_p2))]]
                /\ m_acc' = <<AccAdd(m_acc[1], payoff[1]), AccAdd(m_acc[2], payoff[2])>>
                /\ m_round' = [intended |-> <<s_1.action, s_2.action>>,
                               executed |-> <<a_p1, a_p2>>,
                               payoff |-> payoff,
                               seen |-> <<Len(players[1].history), Len(players[2].history),
                                          Len(players[2].history), Len(opponent_2.history)>>]
                /\ m_payoffs' = Append(m_payoffs, payoff)
                /\ m_round_counter' = m_round_counter + 1
                /\ m_do_continue' = ContinuePlaying(m_playing_with_prob, r_number,
                                        m_continue_playing_prob, m_n_rounds, m_round_counter')
                /\ m_pc' = m_pc
    /\ UNCHANGED <<gameVars, numpy_promotion, tourVars, evoVars, scoreVars, m_playing_with_prob,
                   m_n_rounds, m_continue_playing_prob, m_error, m_score, m_matches,
                   m_arg_n_rounds, m_plays, m_beyond, m_watch, tr>>

\* play() in probabilistic mode: a pass through the loop body past the
\* explored bound. Only the termination draw is followed; of the rounds
\* played there the parity is kept.
PlayRoundBeyond(r_number) ==
    /\ m_pc = "playing"
    /\ m_do_continue
    /\ m_playing_with_prob
    /\ m_round_counter >= RoundCap
    /\ m_beyond' = ~m_beyond
    /\ m_draws' = Watched(m_watch, [NoDraws EXCEPT !.r_number = r_number])
    /\ m_do_continue' = ContinuePlaying(m_playing_with_prob, r_number,
                            m_continue_playing_prob, m_n_rounds, m_round_counter)
    /\ UNCHANGED <<gameVars, playerVars, tourVars, evoVars, scoreVars, m_pc,
                   m_playing_with_prob, m_n_rounds, m_continue_playing_prob, m_error,
                   m_round_counter, m_score, m_acc, m_matches, m_arg_n_rounds, m_round,
                   m_payoffs, m_plays, m_watch, tr>>

\* abs(final_score - score) < 1e-6, both being sums divided by the counter
ScoresAgree(replayed, acc, counter) ==
    /\ Abs(replayed[1] - acc[1]) * 1000000 < counter
    /\ Abs(replayed[2] - acc[2]) * 1000000 < counter

\* play(): after the loop, the division, compute_scores and the assertion
PlayFinish ==
    /\ m_pc = "playing"
    /\ ~m_do_continue
    /\ m_score' = <<[num |-> m_acc[1], den |-> m_round_counter],
                    [num |-> m_acc[2], den |-> m_round_counter]>>
    /\ LET replayed == compute_scores(game, players[1], players[2])
       IN  m_pc' = IF replayed.exc # "" THEN replayed.exc
                   ELSE IF ScoresAgree(replayed.val, m_acc, m_round_counter)
                        THEN "done" ELSE "AssertionError"
    /\ UNCHANGED <<gameVars, playerVars, tourVars, evoVars, scoreVars, m_playing_with_prob, m_n_rounds,
                   m_continue_playing_prob, m_error, m_round_counter, m_acc,
                   m_do_continue, m_matches, m_arg_n_rounds, m_round, m_payoffs,
                   m_plays, m_beyond, m_watch, m_draws, tr>>

\* no play_trace() running
NoTrace ==
    [pc |-> "none", match |-> 0, players |-> <<>>, round_counter |-> 0,
     score |-> ZeroScore, acc |-> <<0, 0>>, do_continue |-> FALSE,
     player_1_payoffs |-> <<>>, player_2_payoffs |-> <<>>, data |-> <<>>]

\* A copy of the Match just constructed, with its players, on which
\* play_trace() is called: the four locals before the loop.
TraceStart ==
    /\ m_pc = "constructed"
    /\ tr.match # m_matches
    /\ tr' = [pc |-> "playing", match |-> m_matches, players |-> players,
              round_counter |-> m_round_counter, score |-> m_score,
              acc |-> <<0, 0>>, do_continue |-> TRUE,
              player_1_payoffs |-> <<>>, player_2_payoffs |-> <<>>,
              data |-> <<>>]
    /\ UNCHANGED <<gameVars, playerVars, tourVars, evoVars, scoreVars, m_pc,
                   m_playing_with_prob, m_n_rounds, m_continue_playing_prob, m_error,
                   m_round_counter, m_score, m_acc, m_do_continue, m_matches,
                   m_arg_n_rounds, m_round, m_payoffs, m_plays, m_beyond, m_watch,
                   m_draws>>

\* variant: the payoffs recorded are those of the actions the strategies
\* returned
TraceRoundResult_IntendedPayoffs(t, draws) ==
    LET s_1 == strategy(t.players[1], t.players[2], draws.rnd_1)
        s_2 == strategy(t.players[2], s_1.self, draws.rnd_2)
        a_p1 == Executed(s_1.action, draws.d_1, m_error)
        a_p2 == Executed(s_2.action, draws.d_2, m_error)
        payoff == evaluate_result(game, a_p1, a_p2).val
        recorded == evaluate_result(game, s_1.action, s_2.action).val
        counter == t.round_counter + 1
    IN  [t EXCEPT
            !.player_1_payoffs = Append(@, recorded[1]),
            !.player_2_payoffs = Append(@, recorded[2]),
            !.players = <<[s_1.self EXCEPT !.history = Append(@, a_p1)],
                          [s_2.self EXCEPT !.history = Append(@, a_p2)]>>,
            !.acc = <<AccAdd(t.acc[1], payoff[1]), AccAdd(t.acc[2], payoff[2])>>,
            !.round_counter = counter,
            !.do_continue = ContinuePlaying(m_playing_with_prob, draws.r_number,
                                m_continue_playing_prob, m_n_rounds, counter)]

\* play_trace(): one pass through the loop body on the copy t, with the
\* given values of its random() calls; int(payoff) is the payoff itself
TraceRoundResult(t, draws) ==
    LET s_1 == strategy(t.players[1], t.players[2], draws.rnd_1)
        s_2 == strategy(t.players[2], s_1.self, draws.rnd_2)
        a_p1 == Executed(s_1.action, draws.d_1, m_error)
        a_p2 == Executed(s_2.action, draws.d_2, m_error)
        payoff == evaluate_result(game, a_p1, a_p2).val
        counter == t.round_counter + 1
    IN  [t EXCEPT
            !.player_1_payoffs = Append(@, payoff[1]),
            !.player_2_payoffs = Append(@, payoff[2]),
            !.players = <<[s_1.self EXCEPT !.history = Append(@, a_p1)],
                          [s_2.self EXCEPT !.history = Append(@, a_p2)]>>,
            !.acc = <<AccAdd(t.acc[1], payoff[1]), AccAdd(t.acc[2], payoff[2])>>,
            !.round_counter = counter,
            !.do_continue = ContinuePlaying(m_playing_with_prob, draws.r_number,
                                m_continue_playing_prob, m_n_rounds, counter)]

\* play_trace() takes the round play() has just taken, with the same draws
TraceRound ==
    /\ tr.pc = "playing"
    /\ tr.do_continue
    /\ tr.round_counter < m_round_counter
    /\ tr' = TraceRoundResult(tr, m_draws)
    /\ UNCHANGED <<gameVars, playerVars, tourVars, evoVars, scoreVars, m_pc,
                   m_playing_with_prob, m_n_rounds, m_continue_playing_prob, m_error,
                   m_round_counter, m_score, m_acc, m_do_continue, m_matches,
                   m_arg_n_rounds, m_round, m_payoffs, m_plays, m_beyond, m_watch,
                   m_draws>>

\* the dict play_trace() returns (the names left out)
TraceData(t, final_score) ==
    [rounds |-> t.round_counter,
     p1_actions |-> t.players[1].history,
     p2_actions |-> t.players[2].history,
     p1_payoffs |-> t.player_1_payoffs,
     p2_payoffs |-> t.player_2_payoffs,
     mean_score_p1 |-> final_score[1],
     mean_score_p2 |-> final_score[2]]

\* play_trace(): after the loop, the division, compute_scores, the
\* assertion and the dict
TraceFinish ==
    /\ tr.pc = "playing"
    /\ ~tr.do_continue
    /\ tr.round_counter = m_round_counter
    /\ m_pc # "playing"
    /\ LET replayed == compute_scores(game, tr.players[1], tr.players[2])
           final_score == <<[num |-> replayed.val[1], den |-> tr.round_counter],
                            [num |-> replayed.val[2], den |-> tr.round_counter]>>
           agreed == replayed.exc = "" /\ ScoresAgree(replayed.val, tr.acc, tr.round_counter)
       IN  tr' = [tr EXCEPT
                     !.score = <<[num |-> tr.acc[1], den |-> tr.round_counter],
                                 [num |-> tr.acc[2], den |-> tr.round_counter]>>,
                     !.pc = IF replayed.exc # "" THEN replayed.exc
                            ELSE IF agreed THEN "done" ELSE "AssertionError",
                     !.data = IF agreed THEN TraceData(tr, final_score) ELSE <<>>]
    /\ UNCHANGED <<gameVars, playerVars, tourVars, evoVars, scoreVars, m_pc,
                   m_playing_with_prob, m_n_rounds, m_continue_playing_prob, m_error,
                   m_round_counter, m_score, m_acc, m_do_continue, m_matches,
                   m_arg_n_rounds, m_round, m_payoffs, m_plays, m_beyond, m_watch,
                   m_draws>>

----------------------------------------------------------------------------
(* tournament.py *)

\* The parameters of Match.__init__ and the keywords of the call
\* Match(...) in Tournament.play and Tournament.play_trace.
MatchInitParams == {"player_1", "player_2", "n_rounds", "error"}
MatchInitRequired == {"player_1", "player_2"}
TournamentMatchKeywords == {"player_1", "player_2", "stop_prob", "max_rounds", "error"}

\* Python's binding of a keyword call: every keyword must name a parameter
\* and every parameter without default must be given, else TypeError.
CallBinds(keywords, params, required) ==
    /\ keywords \subseteq params
    /\ required \subseteq keywords

\* len(list(itertools.combinations(players, 2)))
NumPairs(n) == (n * (n - 1)) \div 2

\* variant: the ranking is keyed by the players' names
ZeroRanking_ByName(roster) ==
    [k \in 1..Cardinality({DefaultName(players[roster[i]].kind) : i \in DOMAIN roster})
        |-> 0]

\* {player: 0.0 for player in self.players}, the key of a Player object
\* being its position in the roster
ZeroRanking(roster) == [i \in DOMAIN roster |-> 0]

\* Tournament.__init__
TournamentConstruct(roster, stop_prob, max_rounds, error, repetitions) ==
    /\ t_pc = "none"
    /\ t_pc' = "constructed"
    /\ t_players' = roster
    /\ t_stop_prob' = stop_prob
    /\ t_max_rounds' = max_rounds
    /\ t_error' = error
    /\ t_repetitions' = repetitions
    /\ t_ranking' = ZeroRanking(roster)
    /\ t_games' = 0
    /\ t_call' = ""
    /\ t_trace' = <<>>
    /\ t_calls' = 0
    /\ UNCHANGED <<gameVars, playerVars, matchVars, evoVars, scoreVars>>

\* The loops of play() and play_trace() over pairs and repetitions. The
\* first pass through the inner loop calls Match(player_1=, player_2=,
\* stop_prob=, max_rounds=, error=): the call does not bind to
\* Match.__init__, so TypeError leaves the method before the constructor's
\* body, match.play() or clean_history() run. With no pair or no
\* repetition the loops end without a pass.
TournamentLoops(n_players, repetitions) ==
    IF NumPairs(n_players) = 0 \/ repetitions <= 0 THEN "done"
    ELSE IF CallBinds(TournamentMatchKeywords, MatchInitParams, MatchInitRequired)
         THEN "match"
         ELSE "TypeError"

\* Tournament.play
TournamentPlay ==
    /\ t_pc \in {"constructed", "done"}
    /\ t_calls < MaxCalls
    /\ t_calls' = t_calls + 1
    /\ t_ranking' = ZeroRanking(t_players)
    /\ t_games' = 0
    /\ t_call' = "play"
    /\ t_pc' = TournamentLoops(Len(t_players), t_repetitions)
    /\ UNCHANGED <<gameVars, playerVars, matchVars, evoVars, scoreVars, t_players, t_stop_prob,
                   t_max_rounds, t_error, t_repetitions, t_trace>>

\* Tournament.play_trace: the same loops, collecting one record per match;
\* the DataFrame is built from the records only when the loops end.
TournamentPlayTrace ==
    /\ t_pc \in {"constructed", "done"}
    /\ t_calls < MaxCalls
    /\ t_calls' = t_calls + 1
    /\ t_ranking' = ZeroRanking(t_players)
    /\ t_games' = 0
    /\ t_call' = "play_trace"
    /\ t_trace' = <<>>
    /\ t_pc' = TournamentLoops(Len(t_players), t_repetitions)
    /\ UNCHANGED <<gameVars, playerVars, matchVars, evoVars, scoreVars, t_players, t_stop_prob,
                   t_max_rounds, t_error, t_repetitions>>

----------------------------------------------------------------------------
(* evolution.py *)

\* Names of the seed players that can be handed to Evolution.
SeedNames == <<"Grim Trigger", "Always 3", "Tit for Tat">>

\* The players arguments: up to MaxSeeds seed players, of pairwise
\* different names or the last one named as the first.
SeedRosters ==
    LET Distinct(n) == SubSeq(SeedNames, 1, n)
        Sizes == 1..Min(MaxSeeds, Len(SeedNames))
    IN  {Distinct(n) : n \in Sizes}
            \cup {[Distinct(n) EXCEPT ![n] = SeedNames[1]] : n \in Sizes \ {1}}

\* int(self.total_population * self.reproductivity), the reproductivity
\* being q/4 (a float that holds it exactly)
ReprInt(total_population, q) == (total_population * q) \div 4

\* variant: the remainder of the division is handed to the first seeds
InitialPopulation_SpreadsRemainder(n_players, initial_population) ==
    IF initial_population.is_int
    THEN [i \in 1..n_players |->
             (initial_population.n \div n_players)
                 + (IF i <= initial_population.n % n_players THEN 1 ELSE 0)]
    ELSE initial_population.counts

\* Evolution.__init__: an int initial_population is split by floor
\* division, a tuple is taken as it is. The argument is [is_int, n, counts].
InitialPopulation(n_players, initial_population) ==
    IF initial_population.is_int
    THEN [i \in 1..n_players |-> initial_population.n \div n_players]
    ELSE initial_population.counts

\* The seed player objects of the names, as their owner hands them to
\* Evolution: newly constructed, or as a two-round match against Always3
\* has left them. list is the identity of the list object self.history is
\* bound to.
SeedObjects(names, played) ==
    [i \in DOMAIN names |->
        [name |-> names[i],
         history |-> IF ~played THEN <<>>
                     ELSE IF names[i] = "Always 3" THEN <<3, 3>> ELSE <<2, 3>>,
         triggered |-> played /\ names[i] = "Grim Trigger",
         list |-> <<"seed", i>>]]

\* variant: copy.copy, the new object is bound to the list of the old one
deepcopy_SharingHistory(player, id) ==
    [id |-> id, name |-> player.name, score |-> 0, history |-> player.history,
     triggered |-> player.triggered, list |-> player.list]

\* copy.deepcopy(player) as a key of a ranking with the value 0.0: a new
\* object (id) with every attribute of the player and a list of its own
\* holding the entries of the player's history
deepcopy(player, id) ==
    [id |-> id, name |-> player.name, score |-> 0, history |-> player.history,
     triggered |-> player.triggered, list |-> <<"copy", id>>]

RECURSIVE InitialIndividuals(_, _, _, _)
\* the dict comprehension of __init__: one deepcopy per unit of
\* initial_population[i], archetype by archetype; ids number the copies.
InitialIndividuals(seeds, population, i, next_id) ==
    IF i > Len(seeds) THEN <<>>
    ELSE [k \in 1..population[i] |-> deepcopy(seeds[i], next_id + k - 1)]
         \o InitialIndividuals(seeds, population, i + 1, next_id + population[i])

\* copy.deepcopy(self.ranking): new objects again, told from the live ones
\* by a negative id
CumulativeRanking(ranking) ==
    [k \in DOMAIN ranking |->
        [deepcopy(ranking[k], -ranking[k].id) EXCEPT
            !.list = <<"cumulative", ranking[k].id>>]]

\* self._head_to_head_rewards = [], self.head_to_head_rewards = None; no
\* call of get_head_to_head_rewards made
NoHeadToHead == [rewards |-> <<>>, frame |-> "None", returned |-> "unset"]

\* variant: a negative stop counted one position too far to the right
SliceTo_OffByOne(seq, stop) ==
    LET n == Len(seq)
        e == IF stop < 0 THEN Min(Max(n + stop + 1, 0), n) ELSE Min(stop, n)
    IN  SubSeq(seq, 1, e)

\* Python's seq[:stop] for any integer stop
SliceTo(seq, stop) ==
    LET n == Len(seq)
        e == IF stop < 0 THEN Max(n + stop, 0) ELSE Min(stop, n)
    IN  SubSeq(seq, 1, e)

RECURSIVE InsertDesc(_, _)
\* x goes in front of the first element whose score is not greater
InsertDesc(x, sorted) ==
    IF sorted = <<>> THEN <<x>>
    ELSE IF Head(sorted).score > x.score
         THEN <<Head(sorted)>> \o InsertDesc(x, Tail(sorted))
         ELSE <<x>> \o sorted

RECURSIVE InsertAsc(_, _)
InsertAsc(x, sorted) ==
    IF sorted = <<>> THEN <<x>>
    ELSE IF Head(sorted).score <= x.score
         THEN <<Head(sorted)>> \o InsertAsc(x, Tail(sorted))
         ELSE <<x>> \o sorted

RECURSIVE InsertDescBehindTies(_, _)
InsertDescBehindTies(x, sorted) ==
    IF sorted = <<>> THEN <<x>>
    ELSE IF Head(sorted).score >= x.score
         THEN <<Head(sorted)>> \o InsertDescBehindTies(x, Tail(sorted))
         ELSE <<x>> \o sorted

RECURSIVE SortedDesc_TiesReversed(_)
\* variant: descending, individuals of equal score in reverse roster order
SortedDesc_TiesReversed(items) ==
    IF items = <<>> THEN <<>>
    ELSE InsertDescBehindTies(Head(items), SortedDesc_TiesReversed(Tail(items)))

RECURSIVE SortedDesc_Ascending(_)
\* variant: the sort without reverse=True
SortedDesc_Ascending(items) ==
    IF items = <<>> THEN <<>>
    ELSE InsertAsc(Head(items), SortedDesc_Ascending(Tail(items)))

RECURSIVE SortedDesc(_)
\* sorted(items, key=score, reverse=True): descending and stable
SortedDesc(items) ==
    IF items = <<>> THEN <<>>
    ELSE InsertDesc(Head(items), SortedDesc(Tail(items)))

IdsOf(pop) == {pop[i].id : i \in DOMAIN pop}

RECURSIVE FreshIds(_, _, _)
\* identities of n newly allocated objects: ids no listed object has
FreshIds(used, n, from) ==
    IF n = 0 THEN <<>>
    ELSE IF from \in used THEN FreshIds(used, n, from + 1)
    ELSE <<from>> \o FreshIds(used, n - 1, from + 1)

\* variant: the offspring are new individuals of the last seed archetype
Offspring_OfLastSeed(parents, ids) ==
    [k \in DOMAIN parents |->
        [parents[k] EXCEPT !.id = ids[k], !.score = 0, !.history = <<>>,
                           !.list = <<"new", ids[k]>>,
                           !.name = e_players[Len(e_players)]]]

\* copy.deepcopy(parent) followed by clean_history(): a new object with
\* every attribute of the parent, the history replaced by an empty list
Offspring(parents, ids) ==
    [k \in DOMAIN parents |->
        [deepcopy(parents[k], ids[k]) EXCEPT !.history = <<>>,
                                             !.list = <<"new", ids[k]>>]]

\* Evolution.natural_selection(result_tournament) with self.repr_int = r
natural_selection(result_tournament, r) ==
    IF result_tournament = <<>>
    THEN [exc |-> "ValueError", val |-> <<>>]
    ELSE LET current_population == SortedDesc(result_tournament)
             parents == SliceTo(current_population, r)
             survivors == SliceTo(current_population, -r)
             offspring == Offspring(parents,
                              FreshIds(IdsOf(result_tournament), Len(parents), 1))
             new_population == survivors \o offspring
         IN  [exc |-> "",
              val |-> [k \in DOMAIN new_population |->
                          [new_population[k] EXCEPT !.score = 0]]]

CountOf(ranking, name) == Cardinality({i \in DOMAIN ranking : ranking[i].name = name})

NamesOf(seq) == {seq[i] : i \in DOMAIN seq}

\* Evolution.count_strategies: a count for every name alive and a 0 for
\* every seed name that is not
count_strategies(ranking, seeds) ==
    [name \in {ranking[i].name : i \in DOMAIN ranking} \cup NamesOf(seeds) |->
        CountOf(ranking, name)]

\* Evolution.__init__ on the seed player objects: e_players keeps their
\* names, e_seed_objects the objects as their owner holds them
EvolutionConstruct(seeds, initial_population, q, generations, repetitions) ==
    /\ e_pc = "none"
    /\ e_pc' = "constructed"
    /\ e_players' = [i \in DOMAIN seeds |-> seeds[i].name]
    /\ e_seed_objects' = seeds
    /\ e_generations' = generations
    /\ e_repetitions' = repetitions
    /\ e_initial_population' = InitialPopulation(Len(seeds), initial_population)
    /\ e_total_population' = SumSeq(e_initial_population')
    /\ e_repr_int' = ReprInt(e_total_population', q)
    /\ e_ranking' = InitialIndividuals(seeds, e_initial_population', 1, 1)
    /\ e_cumulative_ranking' = CumulativeRanking(e_ranking')
    /\ e_head' = NoHeadToHead
    /\ e_arg_population' = initial_population
    /\ UNCHANGED <<gameVars, playerVars, matchVars, tourVars, scoreVars, e_generation,
                   e_count_evolution, e_ns_in, e_ns_out, e_ns_calls>>

\* An individual as a two-round match against Always3 leaves it: both
\* actions in its history, a GrimTrigger triggered.
AfterMatch(individual) ==
    [individual EXCEPT
        !.history = IF individual.name = "Always 3" THEN <<3, 3>> ELSE <<2, 3>>,
        !.triggered = (individual.name = "Grim Trigger")]

\* A call evolution.natural_selection(result) on the live population with
\* the scores of a finished tournament; self.ranking is not assigned. The
\* call reads neither generations nor repetitions: it is explored for one
\* value of each.
NaturalSelectionCall(scores, played) ==
    /\ e_pc = "constructed"
    /\ e_ns_calls = 0
    /\ e_generations = 1
    /\ e_repetitions = 0
    /\ DOMAIN scores = DOMAIN e_ranking
    /\ e_ns_in' = [i \in DOMAIN e_ranking |->
                      IF played
                      THEN AfterMatch([e_ranking[i] EXCEPT !.score = scores[i]])
                      ELSE [e_ranking[i] EXCEPT !.score = scores[i]]]
    /\ e_ns_out' = natural_selection(e_ns_in', e_repr_int)
    /\ e_ns_calls' = 1
    /\ UNCHANGED <<gameVars, playerVars, matchVars, tourVars, scoreVars, e_pc, e_players,
                   e_generations, e_repetitions, e_initial_population, e_arg_population,
                   e_total_population, e_repr_int, e_ranking, e_generation,
                   e_count_evolution, e_seed_objects, e_cumulative_ranking, e_head>>

\* Evolution.play up to its loop: the initial counts
EvolutionPlayStart ==
    /\ e_pc = "constructed"
    /\ e_pc' = IF e_generations <= 0 THEN "finished" ELSE "playing"
    /\ e_generation' = 0
    /\ e_count_evolution' =
           LET initial_counts == count_strategies(e_ranking, e_players)
           IN  [name \in DOMAIN initial_counts |-> <<initial_counts[name]>>]
    /\ UNCHANGED <<gameVars, playerVars, matchVars, tourVars, scoreVars, e_players,
                   e_generations, e_repetitions, e_initial_population, e_arg_population,
                   e_total_population, e_repr_int, e_ranking, e_ns_in, e_ns_out,
                   e_ns_calls, e_seed_objects, e_cumulative_ranking, e_head>>

RECURSIVE AppendTimes(_, _, _)
\* n appends of x, one per pass of the loop that names this list
AppendTimes(seq, x, n) == IF n = 0 THEN seq ELSE AppendTimes(Append(seq, x), x, n - 1)

\* the loop over self.players after a generation: one entry appended to
\* the list of the player's name for every seed player
RecordCounts(count_evolution, current_counts, seeds) ==
    [name \in DOMAIN count_evolution |->
        AppendTimes(count_evolution[name], current_counts[name],
                    Cardinality({i \in DOMAIN seeds : seeds[i] = name}))]

\* if len(current_counts) == 1: break
BreakOnCounts(current_counts) == Cardinality(DOMAIN current_counts) = 1

\* Evolution.play: one pass of the loop over the generations: a Tournament
\* over the live individuals, natural selection on its ranking, the counts,
\* the break on a single counted name.
GenerationPass ==
    /\ e_pc = "playing"
    /\ e_generation < e_generations
    /\ e_generation' = e_generation + 1
    /\ LET outcome == TournamentLoops(Len(e_ranking), e_repetitions)
           result == [i \in DOMAIN e_ranking |-> [e_ranking[i] EXCEPT !.score = 0]]
           selected == natural_selection(result, e_repr_int)
           current_counts == count_strategies(selected.val, e_players)
       IN  IF outcome # "done"
           THEN /\ e_pc' = outcome
                /\ UNCHANGED <<e_ranking, e_count_evolution, e_ns_in, e_ns_out,
                               e_ns_calls>>
           ELSE /\ e_ns_in' = result
                /\ e_ns_out' = selected
                /\ e_ns_calls' = Min(e_ns_calls + 1, MaxGenerations + 1)
                /\ IF selected.exc # ""
                   THEN /\ e_pc' = selected.exc
                        /\ UNCHANGED <<e_ranking, e_count_evolution>>
                   ELSE /\ e_ranking' = selected.val
                        /\ e_count_evolution' =
                               RecordCounts(e_count_evolution, current_counts, e_players)
                        /\ e_pc' = IF BreakOnCounts(current_counts)
                                        \/ e_generation' = e_generations
                                   THEN "finished" ELSE "playing"
    /\ UNCHANGED <<gameVars, playerVars, matchVars, tourVars, scoreVars, e_players,
                   e_generations, e_repetitions, e_initial_population, e_arg_population,
                   e_total_population, e_repr_int, e_seed_objects>>

\* variant: the pass begins with self.update_cumulative_ranking(self.ranking)
EvolutionGeneration_Accumulating ==
    /\ GenerationPass
    /\ e_cumulative_ranking' =
           e_cumulative_ranking
               \o SelectSeq(e_ranking, LAMBDA x : x.id \notin IdsOf(e_cumulative_ranking))
    /\ UNCHANGED e_head

\* the pass assigns neither cumulative_ranking nor the head-to-head
\* collection
EvolutionGeneration ==
    /\ GenerationPass
    /\ UNCHANGED <<e_cumulative_ranking, e_head>>

\* Evolution.get_head_to_head_rewards
GetHeadToHeadRewards ==
    /\ e_pc # "none"
    /\ e_head.returned = "unset"
    /\ e_head' = IF Len(e_head.rewards) = 0
                 THEN [e_head EXCEPT !.returned = "None"]
                 ELSE [e_head EXCEPT !.frame = "DataFrame", !.returned = "DataFrame"]
    /\ UNCHANGED <<gameVars, playerVars, matchVars, tourVars, scoreVars, e_pc, e_players,
                   e_generations, e_repetitions, e_initial_population, e_arg_population,
                   e_total_population, e_repr_int, e_ranking, e_generation,
                   e_count_evolution, e_ns_in, e_ns_out, e_ns_calls, e_seed_objects,
                   e_cumulative_ranking>>

----------------------------------------------------------------------------
(* Specifications *)

InitGameVars ==
    /\ game = DefaultGame
    /\ g_pc = "none"
    /\ g_args = <<0, 0>>
    /\ g_result = NoResult

InitMatchObject ==
    /\ m_pc = "none"
    /\ m_playing_with_prob = FALSE
    /\ m_n_rounds = 0
    /\ m_continue_playing_prob = 0
    /\ m_error = 0
    /\ m_round_counter = 0
    /\ m_score = ZeroScore
    /\ m_acc = <<0, 0>>
    /\ m_do_continue = FALSE
    /\ m_matches = 0
    /\ m_arg_n_rounds = 0
    /\ m_round = NoRound
    /\ m_payoffs = <<>>
    /\ m_plays = 0
    /\ m_beyond = FALSE
    /\ m_draws = NoDraws
    /\ tr = NoTrace

InitMatchVars ==
    /\ InitMatchObject
    /\ m_watch = "none"

InitTourVars ==
    /\ t_pc = "none"
    /\ t_players = <<>>
    /\ t_stop_prob = 0
    /\ t_max_rounds = 0
    /\ t_error = 0
    /\ t_repetitions = 0
    /\ t_ranking = <<>>
    /\ t_games = 0
    /\ t_call = ""
    /\ t_trace = <<>>
    /\ t_calls = 0

InitEvoVars ==
    /\ e_pc = "none"
    /\ e_players = <<>>
    /\ e_generations = 0
    /\ e_repetitions = 0
    /\ e_initial_population = <<>>
    /\ e_total_population = 0
    /\ e_repr_int = 0
    /\ e_ranking = <<>>
    /\ e_generation = 0
    /\ e_count_evolution = <<>>
    /\ e_ns_in = <<>>
    /\ e_ns_out = [exc |-> "", val |-> <<>>]
    /\ e_ns_calls = 0
    /\ e_arg_population = [is_int |-> FALSE, n |-> 0, counts |-> <<>>]
    /\ e_seed_objects = <<>>
    /\ e_cumulative_ranking = <<>>
    /\ e_head = NoHeadToHead

InitScoreVars ==
    /\ c_pc = "none"
    /\ c_args = <<1, 1>>
    /\ c_result = NoResult
    /\ s_pc = "none"
    /\ s_before = <<>>
    /\ s_result = NoCall

\* Game: nothing constructed yet.
InitGame ==
    /\ InitGameVars
    /\ InitMatchVars
    /\ InitTourVars
    /\ InitEvoVars
    /\ InitScoreVars
    /\ players = [p \in 1..2 |-> NewPlayer("Always0")]
    /\ numpy_promotion = "legacy"

NextGame ==
    \/ \E actions \in ActionTuples, threshold \in 0..MaxThreshold :
           GameConstruct(actions, threshold)
    \/ \E a_1 \in 0..(MaxActions - 1), a_2 \in 0..(MaxActions - 1) :
           GameEvaluate(a_1, a_2)

SpecGame == InitGame /\ [][NextGame]_vars

\* Match: two freshly constructed players sharing the default Game, the
\* second of four deterministic classes or one whose strategy raises, the
\* first of three of them.
InitMatch ==
    /\ game = DefaultGame
    /\ g_pc = "constructed"
    /\ g_args = <<0, 0>>
    /\ g_result = NoResult
    /\ InitMatchVars
    /\ InitTourVars
    /\ InitEvoVars
    /\ InitScoreVars
    /\ players \in [1..2 -> {NewPlayer(k) : k \in Kinds \cup {"WeightedRandom23"}}]
    /\ players[1].kind \in {"Always3", "TitForTat", "WeightedRandom23"}
    /\ numpy_promotion \in {"legacy", "weak"}

NextMatch ==
    \/ \E n_rounds \in RoundArgs, error \in Errors : MatchConstruct(n_rounds, error)
    \/ PlayStart
    \/ \E d_1 \in Draws, d_2 \in Draws, r_number \in Draws,
          rnd_1 \in StrategyDrawsFor(players[1].kind),
          rnd_2 \in StrategyDrawsFor(players[2].kind) :
           PlayRound(d_1, d_2, r_number, rnd_1, rnd_2)
    \/ PlayFinish

SpecMatch == InitMatch /\ [][NextMatch]_vars

\* Replay: a Match whose play() may be called again once it has returned.
InitReplay ==
    /\ InitMatch
    /\ players[1].kind \in {"Always3", "TitForTat"}
    /\ players[2].kind = "Always3"

NextReplay ==
    \/ \E n_rounds \in RoundArgs, error \in Errors : MatchConstruct(n_rounds, error)
    \/ PlayStart
    \/ PlayAgain
    \/ \E d_1 \in Draws, d_2 \in Draws, r_number \in Draws :
           PlayRound(d_1, d_2, r_number, NoDraw, NoDraw)
    \/ PlayFinish

SpecReplay == InitReplay /\ [][NextReplay]_vars

\* play() and play_trace() side by side: the Match is copied when it has
\* been constructed, play() runs on the Match, play_trace() on the copy,
\* and each round of play_trace() takes the draws of the round play() took.
InitTrace ==
    /\ game = DefaultGame
    /\ g_pc = "constructed"
    /\ g_args = <<0, 0>>
    /\ g_result = NoResult
    /\ InitMatchObject
    /\ m_watch = "all"
    /\ InitTourVars
    /\ InitEvoVars
    /\ InitScoreVars
    /\ players \in {<<NewPlayer("TitForTat"), NewPlayer("Always3")>>,
                    <<NewPlayer("GrimTrigger"), NewPlayer("TitForTat")>>}
    /\ numpy_promotion \in {"legacy", "weak"}

NextTrace ==
    \/ /\ m_pc \in {"none", "rejected"}
       /\ \E n_rounds \in RoundArgs, error \in {0, DrawScale} : MatchConstruct(n_rounds, error)
    \/ TraceStart
    \/ tr.match = m_matches /\ PlayStart
    \/ /\ tr.round_counter = m_round_counter
       /\ \E d_1 \in Draws, d_2 \in Draws, r_number \in Draws :
              \* no termination draw is taken in fixed-length mode, and with
              \* error = 1 every draw flips the action
              /\ ~m_playing_with_prob => r_number = 0
              /\ m_error = DrawScale => d_1 = 0 /\ d_2 = 0
              /\ PlayRound(d_1, d_2, r_number, NoDraw, NoDraw)
    \/ TraceRound
    \/ tr.round_counter = m_round_counter /\ PlayFinish
    \/ TraceFinish

SpecTrace == InitTrace /\ [][NextTrace]_vars

\* The scenario: a TitForTat and an Always3 in one fixed-length match of
\* ScenarioRounds rounds with error = 0.
InitScenario ==
    /\ game = DefaultGame
    /\ g_pc = "constructed"
    /\ g_args = <<0, 0>>
    /\ g_result = NoResult
    /\ InitMatchVars
    /\ InitTourVars
    /\ InitEvoVars
    /\ InitScoreVars
    /\ players = <<NewPlayer("TitForTat"), NewPlayer("Always3")>>
    /\ numpy_promotion \in {"legacy", "weak"}

NextScenario ==
    \/ m_pc = "none" /\ MatchConstruct(ScenarioRounds * DrawScale, 0)
    \/ PlayStart
    \/ \E d_1 \in Draws, d_2 \in Draws : PlayRound(d_1, d_2, 0, NoDraw, NoDraw)
    \/ PlayFinish

SpecScenario == InitScenario /\ [][NextScenario]_vars

\* Matches and tournaments on a Game of any threshold: the Game is
\* constructed first, then either one fixed-length Match between players
\* holding it is played or one Tournament of them is.
InitBoundedSum ==
    /\ InitGameVars
    /\ InitMatchVars
    /\ InitTourVars
    /\ InitEvoVars
    /\ InitScoreVars
    /\ players \in [1..MaxRoster -> {NewPlayer(k) : k \in {"TitForTat", "Always3"}}]
    /\ numpy_promotion = "legacy"

NextBoundedSum ==
    \/ \E threshold \in 0..MaxThreshold : GameConstruct(GAME_ACTIONS, threshold)
    \/ /\ g_pc = "constructed"
       /\ m_pc = "none"
       /\ t_pc = "none"
       /\ \E n \in 1..MaxRounds, error \in {0, DrawScale} :
              MatchConstruct(n * DrawScale, error)
    \/ PlayStart
    \/ \E d_1 \in Draws, d_2 \in Draws : PlayRound(d_1, d_2, 0, NoDraw, NoDraw)
    \/ PlayFinish
    \/ /\ g_pc = "constructed"
       /\ m_pc = "none"
       /\ \E n \in 0..MaxRoster, repetitions \in 0..1 :
              TournamentConstruct([i \in 1..n |-> i], 0, DrawScale, 0, repetitions)
    \/ TournamentPlay

SpecBoundedSum == InitBoundedSum /\ [][NextBoundedSum]_vars

\* Probabilistic matches of any length: the rounds past the explored bound
\* are followed by their termination draw.
InitMatchFair ==
    /\ game = DefaultGame
    /\ g_pc = "constructed"
    /\ g_args = <<0, 0>>
    /\ g_result = NoResult
    /\ InitMatchObject
    /\ m_watch = "stop"
    /\ InitTourVars
    /\ InitEvoVars
    /\ InitScoreVars
    /\ players \in [1..2 -> {NewPlayer(k) : k \in {"TitForTat", "GrimTrigger"}}]
    /\ numpy_promotion = "legacy"

\* a pass through the loop whose termination draw does not exceed the
\* stop probability
StopRound ==
    \E r_number \in Draws :
        /\ r_number <= m_continue_playing_prob
        /\ \/ \E d_1 \in Draws, d_2 \in Draws :
                  PlayRound(d_1, d_2, r_number, NoDraw, NoDraw)
           \/ PlayRoundBeyond(r_number)

NextMatchFair ==
    \/ \E n_rounds \in 1..(DrawScale - 1), error \in {0, DrawScale} :
           MatchConstruct(n_rounds, error)
    \/ PlayStart
    \/ \E d_1 \in Draws, d_2 \in Draws, r_number \in Draws :
           PlayRound(d_1, d_2, r_number, NoDraw, NoDraw)
    \/ \E r_number \in Draws : PlayRoundBeyond(r_number)
    \/ PlayFinish

\* The interpreter runs the method to its end (weak fairness of the steps
\* of play()), and the random source eventually yields a draw that does
\* not exceed the stop probability.
SpecMatchFair ==
    /\ InitMatchFair
    /\ [][NextMatchFair]_vars
    /\ WF_vars(PlayStart)
    /\ WF_vars(PlayFinish)
    /\ WF_vars(StopRound)

\* A player as a one-round Match.play() without fault leaves it: its first
\* action in its history.
PlayedOnce(kind) ==
    [NewPlayer(kind) EXCEPT
        !.history = <<strategy(NewPlayer(kind), NewPlayer(kind), NoDraw).action>>]

\* Tournament: players that are new or have played a match before.
InitTournament ==
    /\ game = DefaultGame
    /\ g_pc = "constructed"
    /\ g_args = <<0, 0>>
    /\ g_result = NoResult
    /\ InitMatchVars
    /\ InitTourVars
    /\ InitEvoVars
    /\ InitScoreVars
    /\ players \in [1..MaxRoster ->
                       {NewPlayer(k) : k \in {"Always3", "TitForTat"}}
                           \cup {PlayedOnce(k) : k \in {"Always3", "TitForTat"}}]
    /\ numpy_promotion = "legacy"

NextTournament ==
    \/ \E n \in 0..MaxRoster, stop_prob \in {0, 1}, max_rounds \in 1..2,
          error \in {0, DrawScale}, repetitions \in 0..MaxRepetitions :
           TournamentConstruct([i \in 1..n |-> i], stop_prob, max_rounds * DrawScale,
                               error, repetitions)
    \/ TournamentPlay
    \/ TournamentPlayTrace

SpecTournament == InitTournament /\ [][NextTournament]_vars

\* Evolution: nothing constructed yet.
InitEvolution ==
    /\ game = DefaultGame
    /\ g_pc = "constructed"
    /\ g_args = <<0, 0>>
    /\ g_result = NoResult
    /\ InitMatchVars
    /\ InitTourVars
    /\ InitEvoVars
    /\ InitScoreVars
    /\ players = [p \in 1..2 |-> NewPlayer("Always0")]
    /\ numpy_promotion = "legacy"

\* initial_population arguments: a total, or one count per seed
PopulationArgs(n_players) ==
    {[is_int |-> TRUE, n |-> n, counts |-> <<>>] : n \in 0..MaxPopulation}
        \cup {[is_int |-> FALSE, n |-> 0, counts |-> c] :
                  c \in {c \in [1..n_players -> 0..MaxPopulation] :
                            SumSeq(c) <= MaxPopulation}}

NextEvolution ==
    \/ /\ e_pc = "none"
       /\ \E seeds \in SeedRosters, q \in 0..MaxReproQuarters,
             generations \in 1..MaxGenerations, repetitions \in 0..1 :
              \E initial_population \in PopulationArgs(Len(seeds)) :
                  EvolutionConstruct(SeedObjects(seeds, FALSE), initial_population, q,
                                     generations, repetitions)
    \/ /\ e_pc = "constructed"
       /\ e_ns_calls = 0
       /\ \E scores \in [DOMAIN e_ranking -> 0..MaxScore], played \in BOOLEAN :
              NaturalSelectionCall(scores, played)
    \/ EvolutionPlayStart
    \/ EvolutionGeneration

SpecEvolution == InitEvolution /\ [][NextEvolution]_vars

\* Evolution on seed players that may have played before they are handed
\* over, with one count per seed; between the steps of play() the owner
\* may ask for the head-to-head rewards.
NextLineage ==
    \/ /\ e_pc = "none"
       /\ \E seeds \in SeedRosters, played \in BOOLEAN, q \in 1..2, repetitions \in 0..1 :
              \E initial_population \in PopulationArgs(Len(seeds)) :
                  /\ ~initial_population.is_int
                  /\ EvolutionConstruct(SeedObjects(seeds, played), initial_population, q,
                                        MaxGenerations, repetitions)
    \/ EvolutionPlayStart
    \/ EvolutionGeneration
    \/ GetHeadToHeadRewards

SpecLineage == InitEvolution /\ [][NextLineage]_vars

\* The histories players hold after matches of up to MaxHistory rounds.
Histories == UNION {[1..n -> NamesOf(GAME_ACTIONS)] : n \in 0..MaxHistory}

\* Players: two players of one Game that have played before, each against
\* opponents of its own.
InitPlayer ==
    /\ game = DefaultGame
    /\ g_pc = "constructed"
    /\ g_args = <<0, 0>>
    /\ g_result = NoResult
    /\ InitMatchVars
    /\ InitTourVars
    /\ InitEvoVars
    /\ InitScoreVars
    /\ players \in [1..2 -> {[NewPlayer("TitForTat") EXCEPT !.history = h] :
                                 h \in Histories}]
    /\ numpy_promotion \in {"legacy", "weak"}

NextPlayer ==
    \E self \in 1..2, opponent \in 1..2 : ComputeScoresCall(self, opponent)

SpecPlayer == InitPlayer /\ [][NextPlayer]_vars

\* instances of the catalog: every class with its default arguments, and
\* the classes with behaviour-changing arguments with other values
CatalogInstances ==
    {NewPlayer(k) : k \in Catalog}
        \cup {[NewPlayer("PermissiveTitForTat") EXCEPT
                   !.private = [patience |-> initial_patience,
                                INITIAL_PATIENCE |-> initial_patience]] :
                  initial_patience \in 0..2}
        \cup {[NewPlayer("Detective") EXCEPT !.private.PROBE_SEQUENCE = probes] :
                  probes \in {<<2>>, <<2, 3>>}}
        \cup {[NewPlayer("Deterministic_simpletron") EXCEPT
                   !.private.pesimist_start = TRUE],
              [NewPlayer("Deterministic_simpletron") EXCEPT
                   !.private.tit_for_tat_punishmnet = TRUE]}

\* Strategies: a newly constructed player of the catalog facing an
\* opponent of which only the history matters.
InitStrategy ==
    /\ game = DefaultGame
    /\ g_pc = "constructed"
    /\ g_args = <<0, 0>>
    /\ g_result = NoResult
    /\ InitMatchVars
    /\ InitTourVars
    /\ InitEvoVars
    /\ c_pc = "none"
    /\ c_args = <<1, 1>>
    /\ c_result = NoResult
    /\ s_pc = "idle"
    /\ s_before = <<>>
    /\ s_result = NoCall
    /\ players \in [1..2 -> CatalogInstances]
    /\ players[2] = NewPlayer("Always0")
    /\ numpy_promotion = "legacy"

NextStrategy ==
    \/ \E rnd \in StrategyDrawsFor(players[1].kind) : StrategyCall(rnd)
    \/ \E a_opponent \in NamesOf(GAME_ACTIONS) : SparRound(a_opponent)

SpecStrategy == InitStrategy /\ [][NextStrategy]_vars

----------------------------------------------------------------------------
(* Properties *)

\* C1: evaluate_result(a1, a2) of a Game instance returns (a1, a2) when
\* a1 + a2 <= the threshold the instance was constructed with, and (0, 0)
\* otherwise, for every pair of actions of the instance's action set.
C1_PayoffFollowsInstanceThreshold ==
    g_pc = "evaluated" =>
        g_result = [exc |-> "",
                    val |-> IF g_args[1] + g_args[2] <= game.threshold
                            THEN g_args ELSE <<0, 0>>]

MatchLoopLeft ==
    \/ m_pc \in {"done", "AssertionError", "ValueError"}
    \/ m_pc = "playing" /\ ~m_do_continue

\* C2: when play() is over, score is the pair of payoff sums divided by the
\* rounds played, it equals compute_scores over the final histories divided
\* by the rounds played, and the assertion of play() has not failed.
C2_ScoreIsReplayedMean ==
    m_pc \in {"done", "AssertionError", "ValueError"} =>
        LET replayed == compute_scores(game, players[1], players[2])
        IN  /\ m_pc = "done"
            /\ replayed.exc = ""
            /\ m_score[1] = [num |-> replayed.val[1], den |-> m_round_counter]
            /\ m_score[2] = [num |-> replayed.val[2], den |-> m_round_counter]

\* C3: a fixed-length match with an integer bound N >= 1 leaves its loop
\* after exactly N rounds: the counter never passes N, both histories are
\* as long as the counter, and once the loop is left the counter is N.
C3_FixedLengthPlaysExactlyN ==
    (m_pc \in {"playing", "done", "AssertionError"} /\ ~m_playing_with_prob) =>
        /\ m_round_counter * DrawScale <= m_n_rounds
        /\ Len(players[1].history) = m_round_counter
        /\ Len(players[2].history) = m_round_counter
        /\ MatchLoopLeft => m_round_counter * DrawScale = m_n_rounds
        /\ (m_pc = "playing" /\ m_do_continue) => m_round_counter * DrawScale < m_n_rounds

C3_Witness ==
    /\ m_pc = "done"
    /\ ~m_playing_with_prob
    /\ m_round_counter = MaxRounds
    /\ Len(players[1].history) = MaxRounds

\* C7: a Match construction (which calls clean_history) leaves every
\* player as a newly constructed instance of its strategy, so its first
\* action is that of a new instance.
C7_CleanHistoryRestoresPrivateState ==
    m_pc = "constructed" =>
        \A p \in DOMAIN players :
            /\ players[p] = NewPlayer(players[p].kind)
            /\ strategy(players[p], players[3 - p], NoDraw).action
                   = strategy(NewPlayer(players[p].kind), players[3 - p], NoDraw).action

TournamentHasMatches == NumPairs(Len(t_players)) > 0 /\ t_repetitions > 0

\* C8: a call of Tournament.play() plays repetitions matches for every
\* unordered pair of roster entries, C(n,2) * repetitions in total.
C8_EveryPairPlayed ==
    t_call # "" => t_games = NumPairs(Len(t_players)) * t_repetitions

\* C9: after a call of Tournament.play() or play_trace() on a roster with
\* matches to play, every roster player's history is empty.
C9_HistoriesEmptyAfterPlay ==
    (t_call # "" /\ TournamentHasMatches) =>
        \A i \in DOMAIN t_players : players[t_players[i]].history = <<>>

\* C10: every Match a Tournament creates is constructed with the
\* Tournament's configuration, so play() and play_trace() on a roster of at
\* least two players run to their end without raising.
C10_TournamentConstructsItsMatches ==
    (t_call # "" /\ Len(t_players) >= 2) => t_pc = "done"

RECURSIVE SumOver(_, _)
SumOver(f, S) ==
    IF S = {} THEN 0
    ELSE LET x == CHOOSE x \in S : TRUE IN f[x] + SumOver(f, S \ {x})

\* C4: with a reproduction count R >= 1 the number of live individuals and
\* the sum of the per-archetype counts stay total_population, and
\* natural_selection returns as many individuals as it was given.
C4_PopulationConserved ==
    (e_pc # "none" /\ e_repr_int >= 1) =>
        /\ Len(e_ranking) = e_total_population
        /\ LET counts == count_strategies(e_ranking, e_players)
           IN  SumOver(counts, DOMAIN counts) = e_total_population
        /\ e_ns_calls > 0 =>
               /\ e_ns_out.exc = ""
               /\ Len(e_ns_out.val) = Len(e_ns_in)
               /\ Cardinality(IdsOf(e_ns_out.val)) = Len(e_ns_in)

C4_Witness ==
    /\ e_pc = "finished"
    /\ e_generation = 2
    /\ e_total_population >= 2
    /\ e_repr_int >= e_total_population
    /\ e_ns_calls >= 2

\* C5: with a reproduction count of 0 natural_selection returns the
\* individuals it was given, nobody culled and no offspring, and play()
\* runs its generations without an error of natural selection (stated for
\* populations of at least one individual).
C5_ZeroReproductionIsStatic ==
    (e_repr_int = 0 /\ e_total_population >= 1) =>
        /\ e_pc # "ValueError"
        /\ e_ns_calls > 0 =>
               /\ e_ns_out.exc = ""
               /\ Len(e_ns_out.val) = Len(e_ns_in)
               /\ IdsOf(e_ns_out.val) = IdsOf(e_ns_in)

\* Position of the i-th given individual in the descending order that
\* keeps tied individuals in the order given.
RankOf(pop, i) ==
    1 + Cardinality({j \in DOMAIN pop :
                        \/ pop[j].score > pop[i].score
                        \/ pop[j].score = pop[i].score /\ j < i})

\* C6: for 1 <= R <= N natural_selection returns the first N-R individuals
\* of the descending order (the same objects), then one new copy of each of
\* the first R, all with score 0; an archetype's count changes by its
\* number among the top R minus its number among the bottom R.
C6_SurvivorsThenOffspring ==
    (e_ns_calls > 0 /\ e_repr_int >= 1 /\ e_repr_int <= Len(e_ns_in)) =>
        LET n == Len(e_ns_in)
            r == e_repr_int
            out == e_ns_out.val
        IN  /\ e_ns_out.exc = ""
            /\ Len(out) = n
            /\ Cardinality(IdsOf(out)) = n
            /\ \A k \in DOMAIN out : out[k].score = 0
            /\ \A i \in DOMAIN e_ns_in :
                   /\ RankOf(e_ns_in, i) <= n - r =>
                          /\ out[RankOf(e_ns_in, i)].id = e_ns_in[i].id
                          /\ out[RankOf(e_ns_in, i)].name = e_ns_in[i].name
                   /\ RankOf(e_ns_in, i) <= r =>
                          /\ out[n - r + RankOf(e_ns_in, i)].name = e_ns_in[i].name
                          /\ out[n - r + RankOf(e_ns_in, i)].id \notin IdsOf(e_ns_in)
            /\ \A name \in NamesOf(e_players) :
                   CountOf(out, name) =
                       CountOf(e_ns_in, name)
                       + Cardinality({i \in DOMAIN e_ns_in :
                             e_ns_in[i].name = name /\ RankOf(e_ns_in, i) <= r})
                       - Cardinality({i \in DOMAIN e_ns_in :
                             e_ns_in[i].name = name /\ RankOf(e_ns_in, i) > n - r})

C6_Witness ==
    /\ e_ns_calls > 0
    /\ e_repr_int = 2
    /\ Len(e_ns_in) = 3
    /\ e_ns_in[1].score < e_ns_in[2].score
    /\ e_ns_in[2].score = e_ns_in[3].score
    /\ e_ns_in[1].name # e_ns_in[3].name

MatchRoundPlayed ==
    m_pc \in {"playing", "done", "AssertionError"} /\ m_round_counter >= 1

\* C11: in every round the value appended to each history is the action
\* the payoff was evaluated with (after error injection), not the answer of
\* strategy(); replaying the two histories through evaluate_result gives
\* every round's payoff pair.
C11_HistoryHoldsExecutedAction ==
    MatchRoundPlayed =>
        LET h_1 == players[1].history
            h_2 == players[2].history
        IN  /\ Last(h_1) = m_round.executed[1]
            /\ Last(h_2) = m_round.executed[2]
            /\ m_round.payoff = evaluate_result(game, Last(h_1), Last(h_2)).val
            /\ Len(m_payoffs) = Len(h_1)
            /\ Len(m_payoffs) = Len(h_2)
            /\ \A k \in DOMAIN m_payoffs :
                   m_payoffs[k] = evaluate_result(game, h_1[k], h_2[k]).val

C11_Witness ==
    /\ MatchRoundPlayed
    /\ m_round_counter = 2
    /\ m_round.intended[1] # m_round.executed[1]
    /\ m_round.intended[2] = m_round.executed[2]
    /\ Last(players[1].history) = m_round.executed[1]

\* C12: the executed action is the intended action a or its mirror
\* max(actions) - a; with error = 0 it is the intended action whatever the
\* draw, with error = 1 it is the mirror whatever the draw.
C12_ErrorDecidesTheFlip ==
    MatchRoundPlayed =>
        /\ \A p \in 1..2 :
               m_round.executed[p] \in
                   {m_round.intended[p], MaxOfActions - m_round.intended[p]}
        /\ m_error = 0 => m_round.executed = m_round.intended
        /\ m_error = DrawScale =>
               \A p \in 1..2 : m_round.executed[p] = MaxOfActions - m_round.intended[p]

\* C13: in round k both strategy() calls see their own and the opponent's
\* history at length k-1, and after the round both histories have length
\* k, the round counter.
C13_StrategiesSeeOnlyPastRounds ==
    MatchRoundPlayed =>
        /\ \A i \in 1..4 : m_round.seen[i] = m_round_counter - 1
        /\ Len(players[1].history) = m_round_counter
        /\ Len(players[2].history) = m_round_counter

C13_Witness ==
    /\ m_pc = "playing"
    /\ m_round_counter = 2
    /\ players[1].kind = "Always3"
    /\ players[2].kind = "TitForTat"
    /\ m_round.intended[2] = 3
    /\ m_round.seen = <<1, 1, 1, 1>>

\* C14: a Match(...) call with a round bound <= 0 fails at construction and
\* leaves both players, their histories and the state of the earlier match
\* as they were.
C14_NonPositiveRoundsRejected ==
    [][(m_matches' # m_matches /\ m_arg_n_rounds' <= 0) =>
           /\ m_pc' = "rejected"
           /\ players' = players
           /\ m_round_counter' = m_round_counter
           /\ m_score' = m_score
           /\ m_payoffs' = m_payoffs]_vars

C14_Witness ==
    /\ m_pc = "rejected"
    /\ m_arg_n_rounds = 0
    /\ m_round_counter >= 1
    /\ players[1].history # <<>>
    /\ players[2].kind = "GrimTrigger"
    /\ players[2].triggered

RECURSIVE ReplayFromFront(_, _, _)
\* the payoffs of the positions of two histories of one length, summed
\* from the first position on
ReplayFromFront(g, h_1, h_2) ==
    IF h_1 = <<>> THEN <<0, 0>>
    ELSE LET first == evaluate_result(g, Head(h_1), Head(h_2)).val
             rest == ReplayFromFront(g, Tail(h_1), Tail(h_2))
         IN  <<first[1] + rest[1], first[2] + rest[2]>>

\* C15: compute_scores raises ValueError whenever the two histories differ
\* in length, otherwise it returns the two cumulative payoffs of replaying
\* the histories position by position; either way both players are left as
\* they were.
C15_ComputeScoresChecksLengths ==
    [][c_pc' = "called" =>
           LET self == players[c_args'[1]]
               opponent == players[c_args'[2]]
           IN  /\ players' = players
               /\ Len(self.history) # Len(opponent.history) =>
                      c_result'.exc = "ValueError"
               /\ Len(self.history) = Len(opponent.history) =>
                      c_result' = [exc |-> "",
                                   val |-> ReplayFromFront(game, self.history,
                                                           opponent.history)]]_vars

C15_Witness ==
    /\ c_pc = "called"
    /\ c_result.exc = "ValueError"
    /\ Len(players[c_args[1]].history) = 1
    /\ Len(players[c_args[2]].history) = 2

\* names of the roster entries of the Tournament
RosterNames == [i \in DOMAIN t_players |-> DefaultName(players[t_players[i]].kind)]

\* C16: no Tournament exists whose roster holds two players of one name:
\* such a construction fails before any match.
C16_DuplicateNamesRejected ==
    t_pc # "none" =>
        \A i \in DOMAIN t_players, j \in DOMAIN t_players :
            i # j => RosterNames[i] # RosterNames[j]

RECURSIVE FreshMatchTotals(_, _, _)
\* payoff sums of n rounds without fault between player_1 and player_2
FreshMatchTotals(player_1, player_2, n) ==
    IF n = 0 THEN <<0, 0>>
    ELSE LET s_1 == strategy(player_1, player_2, NoDraw)
             s_2 == strategy(player_2, s_1.self, NoDraw)
             payoff == evaluate_result(game, s_1.action, s_2.action).val
             rest == FreshMatchTotals(
                         [s_1.self EXCEPT !.history = Append(@, s_1.action)],
                         [s_2.self EXCEPT !.history = Append(@, s_2.action)], n - 1)
         IN  <<payoff[1] + rest[1], payoff[2] + rest[2]>>

\* what roster entry i earns against entry j over n rounds, whichever of
\* the two is player_1
PairTotal(i, j, n) ==
    FreshMatchTotals(NewPlayer(players[t_players[i]].kind),
                     NewPlayer(players[t_players[j]].kind), n)[1]

\* C17: with error = 0 and fixed-length matches play() ends with, for
\* every player, repetitions times the sum over its opponents of its mean
\* payoff against that opponent: a value no ordering of the roster enters.
C17_RankingIndependentOfOrder ==
    (t_call = "play" /\ TournamentHasMatches /\ t_error = 0) =>
        LET n == t_max_rounds \div DrawScale
        IN  /\ t_pc = "done"
            /\ \A i \in DOMAIN t_players :
                   t_ranking[i] * n =
                       t_repetitions
                       * SumOver([j \in DOMAIN t_players |-> PairTotal(i, j, n)],
                                 DOMAIN t_players \ {i})

\* C18: with error = 0 a play() call on a roster with matches ends with a
\* ranking, and a play() call that follows a finished run of the same
\* Tournament ends with the ranking of that run.
C18_SecondRunSameRanking ==
    [][(t_call' = "play" /\ TournamentHasMatches' /\ t_error' = 0) =>
           /\ t_pc' = "done"
           /\ (t_call = "play" /\ t_pc = "done") => t_ranking' = t_ranking]_vars

LivingNames == {name \in NamesOf(e_players) : CountOf(e_ranking, name) > 0}

\* C19: with two or more seed archetypes play() runs no generation after
\* the first one that leaves a single archetype name with living
\* individuals.
C19_StopsAtMonoculture ==
    (e_pc = "playing" /\ e_generation >= 1 /\ Cardinality(NamesOf(e_players)) >= 2) =>
        Cardinality(LivingNames) # 1

\* C20: while play() runs and when it has ended, the count history of
\* every seed name holds the initial count and one entry per generation
\* played, the last one being the number of its living individuals (0 when
\* it has none).
C20_OneCountPerGeneration ==
    e_pc \in {"playing", "finished"} =>
        \A name \in NamesOf(e_players) :
            /\ name \in DOMAIN e_count_evolution
            /\ Len(e_count_evolution[name]) = e_generation + 1
            /\ Last(e_count_evolution[name]) = CountOf(e_ranking, name)

OffspringOf(out, given) == {k \in DOMAIN out : out[k].id \notin IdsOf(given)}

\* C26: every offspring of natural_selection is a new object, with an
\* empty history and the private state of a newly constructed instance of
\* its parent's strategy.
C26_OffspringStartFresh ==
    (e_ns_calls > 0 /\ e_ns_out.exc = "") =>
        /\ Cardinality(IdsOf(e_ns_out.val)) = Len(e_ns_out.val)
        /\ \A k \in OffspringOf(e_ns_out.val, e_ns_in) :
               /\ e_ns_out.val[k].history = <<>>
               /\ e_ns_out.val[k].triggered = FALSE

\* C22: a strategy() call of any class of the catalog, on histories of
\* equal length holding actions of the game, returns normally and returns
\* an action of the game.
C22_StrategyReturnsAnAction ==
    s_pc \in {"called", "raised"} =>
        /\ s_result.exc = ""
        /\ s_result.action \in NamesOf(game.actions)

\* C23: a strategy() call leaves the caller's history and the opponent's
\* history as they were.
C23_StrategyKeepsHistories ==
    s_pc \in {"called", "raised"} =>
        /\ players[1].history = s_before[1].history
        /\ players[2].history = s_before[2].history

C23_Witness ==
    /\ s_pc = "called"
    /\ players[1].kind = "CastigadorInfernal"
    /\ players[1].private.punishment_mode
    /\ players[1].private # s_before[1].private
    /\ Len(players[1].history) = 2

\* C30: a Match construction that passes the check on n_rounds leaves both
\* players with an empty history, whatever they held, the score at
\* (0.0, 0.0) and the round counter at 0.
C30_ConstructionStartsClean ==
    [][(m_matches' # m_matches /\ m_pc' = "constructed") =>
          /\ players'[1].history = <<>>
          /\ players'[2].history = <<>>
          /\ m_score' = ZeroScore
          /\ m_round_counter' = 0]_vars

C30_Witness ==
    /\ m_pc = "constructed"
    /\ m_matches = 2
    /\ players[2].triggered
    /\ players[2].history = <<>>
    /\ m_score = ZeroScore

\* C27: in fixed-length mode the loop goes on after a round exactly when
\* the counter is below the bound; the counter never passes the bound,
\* also in a play() called on a Match that has played.
C27_FixedLengthLoopTest ==
    (m_pc \in {"playing", "done", "AssertionError"} /\ ~m_playing_with_prob) =>
        /\ m_round_counter * DrawScale <= m_n_rounds
        /\ (m_pc = "playing" /\ m_round_counter > 0 /\ m_round # NoRound) =>
               (m_do_continue <=> m_round_counter * DrawScale < m_n_rounds)

\* C28: in probabilistic mode every pass of the loop takes one termination
\* draw and the match goes on exactly when the draw exceeds the stop
\* probability: a further round follows only a draw that exceeded it, the
\* loop is left only after a draw that did not, and if such a draw
\* eventually occurs a match that is playing reaches DONE.
C28_ProbabilisticStop ==
    /\ []((m_pc = "playing" /\ m_playing_with_prob
              /\ (m_round_counter > 0 \/ m_beyond)) =>
             (m_do_continue <=> m_draws.r_number > m_continue_playing_prob))
    /\ [][(m_playing_with_prob /\ m_pc = "playing" /\ m_round_counter >= 1
              /\ (m_round_counter' = m_round_counter + 1 \/ m_beyond' # m_beyond)) =>
             m_draws.r_number > m_continue_playing_prob]_vars
    /\ [][(m_playing_with_prob /\ m_pc = "playing" /\ m_pc' # "playing") =>
             /\ m_pc' = "done"
             /\ m_draws.r_number <= m_continue_playing_prob]_vars
    /\ ((m_pc = "playing" /\ m_playing_with_prob) ~> (m_pc = "done"))

C28_Witness ==
    /\ m_pc = "done"
    /\ m_playing_with_prob
    /\ m_beyond
    /\ m_round_counter = MaxRounds
    /\ m_draws.r_number <= m_continue_playing_prob

\* C24: play_trace(), started on a copy of the Match and given the draws
\* play() is given, is after every round where play() is, and ends as
\* play() ends, with the same histories, round counter and score; the
\* dict it returns has rounds = the counter, four sequences of that
\* length, every payoff pair the evaluate_result of the action pair at its
\* position, and the mean scores equal to score.
C24_PlayTraceFollowsPlay ==
    /\ (tr.match = m_matches /\ tr.pc = "playing" /\ m_pc = "playing"
            /\ tr.round_counter = m_round_counter) =>
           /\ tr.players = players
           /\ tr.acc = m_acc
           /\ tr.do_continue = m_do_continue
    /\ (tr.match = m_matches /\ tr.pc \in {"done", "AssertionError", "ValueError"}) =>
           /\ tr.pc = m_pc
           /\ tr.players = players
           /\ tr.round_counter = m_round_counter
           /\ tr.score = m_score
    /\ (tr.match = m_matches /\ tr.pc = "done") =>
           LET data == tr.data
           IN  /\ data.rounds = m_round_counter
               /\ Len(data.p1_actions) = data.rounds
               /\ Len(data.p2_actions) = data.rounds
               /\ Len(data.p1_payoffs) = data.rounds
               /\ Len(data.p2_payoffs) = data.rounds
               /\ \A i \in 1..data.rounds :
                      <<data.p1_payoffs[i], data.p2_payoffs[i]>>
                          = evaluate_result(game, data.p1_actions[i], data.p2_actions[i]).val
               /\ <<data.mean_score_p1, data.mean_score_p2>> = m_score

C24_Witness ==
    /\ tr.pc = "done"
    /\ m_pc = "done"
    /\ tr.data.rounds = MaxRounds
    /\ m_round.executed # m_round.intended
    /\ tr.data.p1_payoffs # tr.data.p2_payoffs

\* C29: a TitForTat against an Always3 over 4 rounds with error = 0 ends
\* with the histories [2,3,3,3] and [3,3,3,3], the round payoffs (2,3),
\* (0,0), (0,0), (0,0) and the mean scores 0.5 and 0.75.
C29_TitForTatAgainstAlways3 ==
    (m_pc \in {"done", "AssertionError"} /\ m_n_rounds = ScenarioRounds * DrawScale
        /\ m_error = 0 /\ players[1].kind = "TitForTat" /\ players[2].kind = "Always3") =>
        /\ m_pc = "done"
        /\ players[1].history = <<2, 3, 3, 3>>
        /\ players[2].history = <<3, 3, 3, 3>>
        /\ m_payoffs = <<<<2, 3>>, <<0, 0>>, <<0, 0>>, <<0, 0>>>>
        /\ 2 * m_score[1].num = m_score[1].den
        /\ 4 * m_score[2].num = 3 * m_score[2].den

C36_GrimTriggerIsPermanent ==
    /\ [](s_pc = "called" /\ s_before[1].kind = "GrimTrigger" =>
             LET opponent_history == s_before[2].history
                 defected == opponent_history # <<>> /\ Last(opponent_history) > 2
             IN  /\ players[1].triggered = (s_before[1].triggered \/ defected)
                 /\ s_result.action = IF players[1].triggered THEN 3 ELSE 2)
    /\ [][(players[1].kind = "GrimTrigger" /\ players[1].triggered)
              => players'[1].triggered]_vars

\* a triggered GrimTrigger has answered 3 to an opponent whose last action
\* was not above 2
C36_Witness ==
    /\ s_pc = "called"
    /\ s_before[1].kind = "GrimTrigger"
    /\ s_before[1].triggered
    /\ Last(s_before[2].history) <= 2
    /\ Len(s_before[2].history) = 3
    /\ s_result.action = 3

MeanOfRecentAbove35(history) ==
    LET n == Min(5, Len(history))
    IN  2 * SumSeq(SubSeq(history, Len(history) - n + 1, Len(history))) > 7 * n

\* C34: a CastigadorInfernal in punishment mode has punishment_rounds in
\* 0..2; a strategy() call it makes in punishment mode with a non-empty
\* history returns the opponent's last action, stays in the mode and counts
\* one round when punishment_rounds was 0 or 1, and returns 2, leaves the
\* mode and sets punishment_rounds to 0 when it was 2: the third call
\* after the entry. A call goes from outside the mode into it exactly when
\* the opponent's last action is > 3 and the mean of the opponent's last
\* (up to) 5 actions is > 3.5, and it enters with punishment_rounds = 0.
C34_PunishmentLastsTwoCalls ==
    /\ (players[1].kind = "CastigadorInfernal" /\ players[1].private.punishment_mode) =>
           players[1].private.punishment_rounds \in 0..2
    /\ (s_pc = "called" /\ s_before[1].kind = "CastigadorInfernal"
            /\ s_before[1].history # <<>>) =>
           LET was == s_before[1].private
               is == players[1].private
               last_opponent == Last(s_before[2].history)
           IN  /\ (was.punishment_mode /\ was.punishment_rounds < 2) =>
                      /\ s_result.action = last_opponent
                      /\ is.punishment_mode
                      /\ is.punishment_rounds = was.punishment_rounds + 1
               /\ (was.punishment_mode /\ was.punishment_rounds = 2) =>
                      /\ s_result.action = 2
                      /\ ~is.punishment_mode
                      /\ is.punishment_rounds = 0
               /\ ~was.punishment_mode =>
                      /\ is.punishment_mode =
                             (last_opponent > 3 /\ MeanOfRecentAbove35(s_before[2].history))
                      /\ is.punishment_mode => is.punishment_rounds = 0
    /\ (s_pc = "called" /\ s_before[1].kind = "CastigadorInfernal"
            /\ s_before[1].history = <<>>) =>
           players[1].private = s_before[1].private

\* the third call after the entry: it returns 2 and leaves the mode while
\* the opponent is still above 3 with a recent mean above 3.5
C34_Witness ==
    /\ s_pc = "called"
    /\ s_before[1].kind = "CastigadorInfernal"
    /\ s_before[1].private.punishment_mode
    /\ s_before[1].private.punishment_rounds = 2
    /\ s_before[1].history = <<2, 5, 4, 5>>
    /\ s_before[2].history = <<5, 4, 5, 5>>
    /\ s_result.action = 2
    /\ ~players[1].private.punishment_mode
    /\ players[1].private.punishment_rounds = 0

\* C39: in both termination modes play() and play_trace(), called on a
\* Match just constructed, are still bound to go on while no round has
\* been played, and when they have left the loop and divided the payoff
\* sums the round counter, the divisor, was at least 1.
C39_OneRoundBeforeTheTest ==
    /\ (m_pc = "playing" /\ m_plays = 1 /\ m_round_counter = 0) => m_do_continue
    /\ (tr.pc = "playing" /\ tr.round_counter = 0) => tr.do_continue
    /\ (MatchLoopLeft /\ m_plays = 1) =>
           /\ m_round_counter >= 1
           /\ m_score[1].den >= 1
           /\ m_score[2].den >= 1
    /\ tr.pc \in {"done", "AssertionError"} =>
           /\ tr.round_counter >= 1
           /\ tr.score[1].den >= 1
           /\ tr.score[2].den >= 1

\* a probabilistic match that play() and play_trace() both ended after
\* their first round
C39_Witness ==
    /\ m_pc = "done"
    /\ m_playing_with_prob
    /\ m_round_counter = 1
    /\ m_score[1].den = 1
    /\ tr.match = m_matches
    /\ tr.pc = "done"
    /\ tr.round_counter = 1

\* C38: every round of a match pays both players 0 or more and together
\* no more than the threshold of the Game the players hold; a finished
\* match has mean scores between 0 and the largest action whose sum is no
\* more than the threshold; and the ranking values a finished
\* Tournament.play() leaves sum to no more than
\* threshold * C(n,2) * repetitions.
C38_BoundedSum ==
    /\ \A k \in DOMAIN m_payoffs :
           /\ m_payoffs[k][1] >= 0
           /\ m_payoffs[k][2] >= 0
           /\ m_payoffs[k][1] + m_payoffs[k][2] <= game.threshold
    /\ m_pc = "done" =>
           /\ m_score[1].num + m_score[2].num <= game.threshold * m_round_counter
           /\ \A p \in 1..2 :
                  /\ m_score[p].num >= 0
                  /\ m_score[p].num <= MaxOfActions * m_score[p].den
    /\ (t_call = "play" /\ t_pc = "done") =>
           SumSeq(t_ranking)
               <= game.threshold * NumPairs(Len(t_players)) * t_repetitions

\* C32: a call of Tournament.play_trace() on n players ends with
\* C(n,2) * repetitions records, numbered 1, 2, 3, ... in the order of the
\* matches, each with a repetition in 1..repetitions and two action
\* sequences of num_rounds entries.
C32_OneRecordPerMatch ==
    (t_call = "play_trace" /\ t_calls >= 1) =>
        /\ t_pc = "done"
        /\ Len(t_trace) = NumPairs(Len(t_players)) * t_repetitions
        /\ \A k \in DOMAIN t_trace :
               /\ t_trace[k].game_number = k
               /\ t_trace[k].repetition \in 1..t_repetitions
               /\ Len(t_trace[k].p1_action) = t_trace[k].num_rounds
               /\ Len(t_trace[k].p2_action) = t_trace[k].num_rounds

\* C40: in the counts play() records generation by generation a name
\* that has reached 0 stays at 0, and the population natural_selection
\* returns holds no name that the population it was given did not hold.
C40_ExtinctionIsPermanent ==
    /\ \A name \in DOMAIN e_count_evolution :
           \A i \in DOMAIN e_count_evolution[name], j \in DOMAIN e_count_evolution[name] :
               (i < j /\ e_count_evolution[name][i] = 0) =>
                   e_count_evolution[name][j] = 0
    /\ (e_ns_calls >= 1 /\ e_ns_out.exc = "") =>
           {e_ns_out.val[k].name : k \in DOMAIN e_ns_out.val}
               \subseteq {e_ns_in[k].name : k \in DOMAIN e_ns_in}

\* an archetype alive at the start, extinct after the first generation
\* and still extinct after the second, while another one lives
C40_Witness ==
    /\ e_generation = 2
    /\ e_ranking # <<>>
    /\ \E name \in DOMAIN e_count_evolution :
           e_count_evolution[name] = <<1, 0, 0>>

\* C37: natural_selection ranks the individuals by descending score,
\* those of equal score in the order of the roster it was given, and
\* returns the survivors, which are the first of that ranking in rank
\* order, followed by the offspring, the k-th of which is a copy of the
\* k-th of the ranking: of two tied individuals the later one in the
\* roster is a parent or a survivor only if the earlier one is.
C37_TiesKeepRosterOrder ==
    (e_ns_calls > 0 /\ e_ns_out.exc = "") =>
        LET out == e_ns_out.val
            kept == {k \in DOMAIN out : out[k].id \in IdsOf(e_ns_in)}
            n_survivors == Cardinality(kept)
            n_offspring == Len(out) - n_survivors
            Survives(i) == \E k \in kept : out[k].id = e_ns_in[i].id
            IsParent(i) ==
                \E k \in (DOMAIN out) \ kept :
                    /\ k - n_survivors = RankOf(e_ns_in, i)
                    /\ out[k].name = e_ns_in[i].name
                    /\ out[k].triggered = e_ns_in[i].triggered
        IN  /\ kept = 1..n_survivors
            /\ \A i \in DOMAIN e_ns_in :
                   /\ RankOf(e_ns_in, i) <= n_survivors =>
                          out[RankOf(e_ns_in, i)].id = e_ns_in[i].id
                   /\ RankOf(e_ns_in, i) <= n_offspring => IsParent(i)
            /\ \A i \in DOMAIN e_ns_in, j \in DOMAIN e_ns_in :
                   (i < j /\ e_ns_in[i].score = e_ns_in[j].score) =>
                       /\ Survives(j) => Survives(i)
                       /\ IsParent(j) => IsParent(i)

\* two individuals of different names tied at a score above 0: the first
\* of the roster survives and is the parent, the second is culled
C37_Witness ==
    /\ e_ns_calls > 0
    /\ e_repr_int = 1
    /\ Len(e_ns_in) = 2
    /\ e_ns_in[1].score = 1
    /\ e_ns_in[2].score = 1
    /\ e_ns_in[1].name # e_ns_in[2].name
    /\ Len(e_ns_out.val) = 2
    /\ e_ns_out.val[1].id = e_ns_in[1].id
    /\ e_ns_out.val[2].name = e_ns_in[1].name

\* C33: the live individuals of an Evolution are distinct objects, each
\* named as a seed and bound to a history list no other live individual and
\* no seed is bound to, and no step of the Evolution changes a seed
\* player: its history, its private state and its list stay as handed over.
C33_IndividualsAreIndependentCopies ==
    /\ [](e_pc # "none" =>
             /\ \A i \in DOMAIN e_ranking, j \in DOMAIN e_ranking :
                    i # j => /\ e_ranking[i].id # e_ranking[j].id
                             /\ e_ranking[i].list # e_ranking[j].list
             /\ \A i \in DOMAIN e_ranking :
                    /\ \A s \in DOMAIN e_seed_objects :
                           e_ranking[i].list # e_seed_objects[s].list
                    /\ \E s \in DOMAIN e_seed_objects :
                           e_ranking[i].name = e_seed_objects[s].name)
    /\ [][e_pc # "none" => e_seed_objects' = e_seed_objects]_vars

\* after a generation on seeds that had played: a survivor that still
\* holds the entries copied from its seed next to an offspring
C33_Witness ==
    /\ e_generation >= 1
    /\ Len(e_ranking) >= 2
    /\ \E s \in DOMAIN e_seed_objects : e_seed_objects[s].history # <<>>
    /\ \E i \in DOMAIN e_ranking, j \in DOMAIN e_ranking :
           /\ e_ranking[i].history # <<>>
           /\ e_ranking[j].history = <<>>
           /\ e_ranking[i].name = e_ranking[j].name

\* C31: Evolution.play() leaves cumulative_ranking and the head-to-head
\* collection as they were, and the population a generation hands to
\* natural selection is the live roster, in its order, with the scores of
\* that generation's tournament.
C31_AccumulatorsStayOut ==
    /\ [][(e_pc = "constructed" \/ e_pc = "playing") =>
              (/\ e_cumulative_ranking' = e_cumulative_ranking
               /\ e_head'.rewards = e_head.rewards
               /\ e_head'.frame = e_head.frame)]_vars
    /\ [][(e_pc = "playing" /\ e_ns_calls' # e_ns_calls) =>
              (/\ Len(e_ns_in') = Len(e_ranking)
               /\ \A k \in DOMAIN e_ranking :
                      (/\ e_ns_in'[k].id = e_ranking[k].id
                       /\ e_ns_in'[k].id \notin IdsOf(e_cumulative_ranking)))]_vars

\* a generation has run natural selection on a live roster while
\* cumulative_ranking still holds the copies made at construction and the
\* head-to-head rewards have been asked for
C31_Witness ==
    /\ e_generation >= 1
    /\ e_ns_calls >= 1
    /\ Len(e_ns_in) >= 2
    /\ Len(e_cumulative_ranking) = Len(e_ns_in)
    /\ e_head.returned = "None"

====
